---- MODULE Spec2Model ----
(***************************************************************************)
(* A model of GLFWM (GLFW Manager): the window registry with its pool of   *)
(* shared mutexes (src/src/window.cpp), the window groups with their       *)
(* registry and loop control, and the update map (src/src/window_group.cpp *)
(* holds WindowGroup, WindowManager and UpdateMap).                        *)
(*                                                                         *)
(* IDs are size_t values counted from 0; the deques they index are         *)
(* sequences here, so that the element of ID i is at position i + 1.       *)
(***************************************************************************)
EXTENDS Integers, Sequences, FiniteSets, TLC

\* ------------------------------------------------------------------------
\* Bounds of the model
\* ------------------------------------------------------------------------

\* WindowIDs range over 0 .. MaxWindows - 1 (Window::windows never grows longer).
MaxWindows == 3

\* WindowGroupIDs range over 0 .. MaxGroups - 1.
MaxGroups == 2

\* WindowGroup objects that can be alive (owned by a shared_ptr) at once.
MaxGroupObjs == 2

\* Longest WindowGroup::freedWindowGroupIDs the model lets a deletion build.
MaxFreedGroupIDs == 2

\* Windows created where groups are created and deleted (SpecGroups).
MaxGroupWindows == 2

\* Windows created where the redraw pass runs (SpecLoop).
MaxLoopWindows == 2

\* Real WindowGroupIDs and WindowIDs posted to the update map (SpecQueue).
MaxQueueGroups == 1
MaxQueueWindows == 1

\* Windows, groups and requests of other threads where mainLoop runs (SpecMain).
MaxMainWindows == 1
MaxMainGroups == 1
MaxNotifies == 1

\* EventHandlers and ranks 0 .. MaxRank bound to the window of SpecHandlers, and
\* Drawables bound to the window of SpecDrawables.
MaxHandlers == 3
MaxDrawables == 3
MaxRank == 1

\* EventHandlers bound to the window that is given events (SpecDispatch).
MaxDispatchHandlers == 2

\* Threads that handle events and draw, and the windows they do it on (SpecSlots).
MaxThreads == 2
MaxSlotWindows == 2

\* Windows and groups of the program that goes on after mainLoop returned (SpecReuse).
MaxReuseWindows == 1
MaxReuseGroups == 2

\* ------------------------------------------------------------------------
\* Program constants (src/include/GLFWM/enums.hpp)
\* ------------------------------------------------------------------------

\* std::numeric_limits<size_t>::max(), scaled down: it only has to exceed every real ID.
SizeMax == 1000000

LastWindowID == SizeMax - 2
WholeGroupWindowIDs == SizeMax - 1
AllWindowIDs == SizeMax

LastWindowGroupID == SizeMax - 3
NoWindowGroupID == SizeMax - 2
AnyWindowGroupID == SizeMax - 1
AllWindowGroupIDs == SizeMax

\* The value Window::destroy leaves in sharedMutexID: numeric_limits<MutexID>::max().
NoMutexID == SizeMax

WIDs == 0 .. (MaxWindows - 1)
GIDs == 0 .. (MaxGroups - 1)
ObjRefs == 1 .. MaxGroupObjs

\* GLFWwindow* values: opaque native handles; 0 is the null pointer.
NullHandle == 0
Handles == 1 .. MaxWindows

Threads == 1 .. MaxThreads

\* The owner of a std::recursive_mutex that no thread has locked.
NoThread == 0

\* A null WindowPointer, and a null WindowGroupPointer.
NullWindow == [null |-> TRUE]
NullRef == 0

\* The share argument of newWindow when it is a null pointer.
NoShare == SizeMax

\* ------------------------------------------------------------------------
\* State
\* ------------------------------------------------------------------------
VARIABLES
    windows,              \* Window::windows: deque of WindowPointer
    windowsMap,           \* Window::windowsMap: GLFWwindow* -> WindowID
    freedWindowIDs,       \* Window::freedWindowIDs
    mutexes,              \* Window::mutexes: the count of each MutexData
    freedMutexes,         \* Window::freedMutexes
    groupObjs,            \* the WindowGroup objects alive on the heap
    windowGroups,         \* WindowGroup::windowGroups: deque of WindowGroupPointer
    freedWindowGroupIDs,  \* WindowGroup::freedWindowGroupIDs
    windowGroupMap,       \* WindowGroup::windowGroupMap: WindowID -> WindowGroupID
    groups_windows,       \* UpdateMap::groups_windows
    emptyEvents,          \* an empty event is posted and not yet delivered
    aborted,              \* the process has died (null dereference, std::terminate)
    mainPC,               \* where the owning thread is in WindowManager::mainLoop
    waitTimeout,          \* WindowManager::waitTimeout: "poll" (0), "wait" (infinity), "timed"
    notifies,             \* UpdateMap::notify calls made by other threads
    eventHandlers,        \* Window::eventHandlers of one window: deque of (object, rank)
    eventHandlerMap,      \* Window::eventHandlerMap: EventHandler -> iterator of the deque
    drawables,            \* Window::drawables of one window
    drawableMap,          \* Window::drawableMap
    callStack,            \* per thread, the Window methods it is inside of
    lastOp                \* the last call of the owning thread and what it returned

vars == <<windows, windowsMap, freedWindowIDs, mutexes, freedMutexes, groupObjs,
          windowGroups, freedWindowGroupIDs, windowGroupMap, groups_windows,
          emptyEvents, aborted, mainPC, waitTimeout, notifies,
          eventHandlers, eventHandlerMap, drawables, drawableMap, callStack, lastOp>>

\* The program state as one value, so that a call is a function from state to state
\* and a handler is the composition of the calls it makes. draws counts, per window,
\* the Window::draw calls made on the calling thread during the current call.
St ==
    [windows |-> windows, windowsMap |-> windowsMap, freedWindowIDs |-> freedWindowIDs,
     mutexes |-> mutexes, freedMutexes |-> freedMutexes, groupObjs |-> groupObjs,
     windowGroups |-> windowGroups, freedWindowGroupIDs |-> freedWindowGroupIDs,
     windowGroupMap |-> windowGroupMap, groups_windows |-> groups_windows,
     emptyEvents |-> emptyEvents, aborted |-> aborted,
     mainPC |-> mainPC, waitTimeout |-> waitTimeout, notifies |-> notifies,
     eventHandlers |-> eventHandlers, eventHandlerMap |-> eventHandlerMap,
     drawables |-> drawables, drawableMap |-> drawableMap, callStack |-> callStack,
     draws |-> [w \in WIDs |-> 0]]

Commit(s) ==
    /\ windows' = s.windows
    /\ windowsMap' = s.windowsMap
    /\ freedWindowIDs' = s.freedWindowIDs
    /\ mutexes' = s.mutexes
    /\ freedMutexes' = s.freedMutexes
    /\ groupObjs' = s.groupObjs
    /\ windowGroups' = s.windowGroups
    /\ freedWindowGroupIDs' = s.freedWindowGroupIDs
    /\ windowGroupMap' = s.windowGroupMap
    /\ groups_windows' = s.groups_windows
    /\ emptyEvents' = s.emptyEvents
    /\ aborted' = s.aborted
    /\ mainPC' = s.mainPC
    /\ waitTimeout' = s.waitTimeout
    /\ notifies' = s.notifies
    /\ eventHandlers' = s.eventHandlers
    /\ eventHandlerMap' = s.eventHandlerMap
    /\ drawables' = s.drawables
    /\ drawableMap' = s.drawableMap
    /\ callStack' = s.callStack

\* The record an action leaves in lastOp.
Call(op, a, b, ret, s) ==
    [op |-> op, a |-> a, b |-> b, ret |-> ret, draws |-> s.draws]

\* ------------------------------------------------------------------------
\* Containers
\* ------------------------------------------------------------------------

\* std::deque::resize(n) when n exceeds the size: value-initialised elements are appended.
Resize(seq, n, fill) ==
    IF n > Len(seq) THEN seq \o [i \in 1 .. (n - Len(seq)) |-> fill] ELSE seq

\* std::lower_bound on a sorted sequence: the first position whose element is not
\* less than x, or Len(seq) + 1.
LowerBound(seq, x) ==
    IF \E i \in 1 .. Len(seq) : seq[i] >= x
    THEN CHOOSE i \in 1 .. Len(seq) : seq[i] >= x /\ \A j \in 1 .. (i - 1) : seq[j] < x
    ELSE Len(seq) + 1

\* std::deque::insert(pos, x).
InsertAt(seq, pos, x) ==
    SubSeq(seq, 1, pos - 1) \o <<x>> \o SubSeq(seq, pos, Len(seq))

Range(seq) == {seq[i] : i \in 1 .. Len(seq)}

\* ------------------------------------------------------------------------
\* Window: the pool of shared mutexes
\* ------------------------------------------------------------------------

\* MutexData(): the count of the users, and the std::recursive_mutex, which is the
\* thread that owns it and how many times that thread has locked it.
MutexData == [count |-> 0, owner |-> NoThread, depth |-> 0]

\* A lock that never makes a thread wait.
MayLock_Always(s, t, m) == TRUE

\* std::recursive_mutex::lock on mutexes[m].mutex returns for thread t: no other
\* thread owns the mutex.
MayLock(s, t, m) == s.mutexes[m + 1].owner \in {NoThread, t}

\* std::recursive_mutex::lock on mutexes[m].mutex by thread t, when it returns.
lock(s, t, m) ==
    [s EXCEPT !.mutexes[m + 1].owner = t, !.mutexes[m + 1].depth = @ + 1]

\* std::recursive_mutex::unlock on mutexes[m].mutex by the thread that owns it.
unlock(s, m) ==
    [s EXCEPT !.mutexes[m + 1].depth = @ - 1,
              !.mutexes[m + 1].owner = IF s.mutexes[m + 1].depth = 1 THEN NoThread ELSE @]

\* Window::newMutexID: books a freed MutexID or a new one and counts its first user.
newMutexID(s) ==
    LET reuse == s.freedMutexes # <<>>
        id == IF reuse THEN Head(s.freedMutexes) ELSE Len(s.mutexes)
        fm == IF reuse THEN Tail(s.freedMutexes) ELSE s.freedMutexes
        ms == Resize(s.mutexes, id + 1, MutexData)
    IN  [st |-> [s EXCEPT !.freedMutexes = fm,
                          !.mutexes = [ms EXCEPT ![id + 1].count = @ + 1]],
         id |-> id]

\* Window::decreaseMutexCount.
decreaseMutexCount(s, id) ==
    IF id >= Len(s.mutexes) \/ s.mutexes[id + 1].count = 0
    THEN s
    ELSE LET ms == [s.mutexes EXCEPT ![id + 1].count = @ - 1]
             pos == LowerBound(s.freedMutexes, id)
         IN  IF ms[id + 1].count = 0
             THEN [s EXCEPT !.mutexes = ms,
                            !.freedMutexes =
                                IF pos = Len(@) + 1 \/ @[pos] # id
                                THEN InsertAt(@, pos, id) ELSE @]
             ELSE [s EXCEPT !.mutexes = ms]

\* ------------------------------------------------------------------------
\* Window: IDs, construction and destruction
\* ------------------------------------------------------------------------

\* Window::newWindowID.
newWindowID(s) ==
    LET reuse == s.freedWindowIDs # <<>>
        id == IF reuse THEN Head(s.freedWindowIDs) ELSE Len(s.windows)
        fl == IF reuse THEN Tail(s.freedWindowIDs) ELSE s.freedWindowIDs
    IN  [st |-> [s EXCEPT !.freedWindowIDs = fl,
                          !.windows = Resize(@, id + 1, NullWindow)],
         id |-> id]

\* A freeWindowID that appends the ID instead of inserting it in order.
freeWindowID_Unsorted(s, id) ==
    [s EXCEPT !.freedWindowIDs = Append(@, id)]

\* Window::freeWindowID.
freeWindowID(s, id) ==
    [s EXCEPT !.freedWindowIDs = InsertAt(@, LowerBound(@, id), id)]

\* Window::unmapWindow.
unmapWindow(s, h) ==
    [s EXCEPT !.windowsMap = [k \in (DOMAIN @) \ {h} |-> @[k]]]

\* Window::Window. share is the ID of the window to share the context with, or NoShare;
\* handle is what glfwCreateWindow returns, NullHandle when it fails. When it
\* fails the constructor throws: ok is FALSE and no Window exists.
WindowCtor(s, id, share, handle) ==
    LET m == IF share # NoShare
             THEN [st |-> s, id |-> s.windows[share + 1].sharedMutexID]
             ELSE newMutexID(s)
    IN  IF handle = NullHandle
        THEN [st |-> m.st, ok |-> FALSE, w |-> NullWindow]
        ELSE [st |-> [m.st EXCEPT !.windowsMap =
                          [k \in (DOMAIN @) \cup {handle} |->
                              IF k \in DOMAIN @ THEN @[k] ELSE id]],
              ok |-> TRUE,
              w |-> [windowID |-> id, sharedMutexID |-> m.id,
                     glfwWindow |-> handle, shouldClose |-> FALSE]]

\* Window::destroy on the Window stored at windows[id].
WindowDestroy(s, id) ==
    LET w == s.windows[id + 1] IN
    IF w.sharedMutexID >= Len(s.mutexes)
    THEN s
    ELSE IF w.glfwWindow # NullHandle
         THEN LET s1 == unmapWindow(s, w.glfwWindow)
                  s2 == freeWindowID(s1, w.windowID)
                  s3 == decreaseMutexCount(s2, w.sharedMutexID)
              IN  [s3 EXCEPT !.windows[id + 1] =
                       [w EXCEPT !.glfwWindow = NullHandle, !.sharedMutexID = NoMutexID]]
         ELSE s

\* Window::newWindow. The new Window is stored only when its constructor returns.
newWindow(s, share, handle) ==
    LET n == newWindowID(s)
        c == WindowCtor(n.st, n.id, share, handle)
    IN  IF c.ok
        THEN [st |-> [c.st EXCEPT !.windows[n.id + 1] = c.w], ok |-> TRUE, id |-> n.id]
        ELSE [st |-> c.st, ok |-> FALSE, id |-> n.id]

\* Window::getWindow.
getWindow(s, id) ==
    IF id < Len(s.windows) THEN s.windows[id + 1] ELSE NullWindow

\* Window::deleteWindow: destroy(), then reset() runs ~Window, which calls destroy()
\* once more on the object before it goes.
deleteWindow(s, id) ==
    IF id < Len(s.windows) /\ s.windows[id + 1] # NullWindow
    THEN LET s1 == WindowDestroy(s, id)
             s2 == WindowDestroy(s1, id)
         IN  [s2 EXCEPT !.windows[id + 1] = NullWindow]
    ELSE s

\* Window::getAllWindowIDs.
getAllWindowIDs(s) ==
    {s.windows[i].windowID : i \in {j \in 1 .. Len(s.windows) : s.windows[j] # NullWindow}}

\* Window::shouldClose on the Window stored at windows[id].
shouldClose(s, id) ==
    IF s.windows[id + 1].glfwWindow # NullHandle
    THEN s.windows[id + 1].shouldClose
    ELSE TRUE

\* Window::setShouldClose(true) on the Window stored at windows[id].
setShouldClose(s, id) ==
    IF s.windows[id + 1].glfwWindow # NullHandle
    THEN [s EXCEPT !.windows[id + 1].shouldClose = TRUE]
    ELSE s

\* Window::windowsToClose.
windowsToClose(s) ==
    {s.windows[i].windowID :
        i \in {j \in 1 .. Len(s.windows) :
                  s.windows[j] # NullWindow /\ shouldClose(s, j - 1)}}

\* Window::isAnyWindowOpen.
isAnyWindowOpen(s) ==
    \E j \in 1 .. Len(s.windows) : s.windows[j] # NullWindow /\ ~shouldClose(s, j - 1)

\* The windows that exist.
LiveWindows(s) == {id \in 0 .. (Len(s.windows) - 1) : s.windows[id + 1] # NullWindow}

\* The native handles in use.
UsedHandles(s) == {s.windows[id + 1].glfwWindow : id \in LiveWindows(s)}

\* ------------------------------------------------------------------------
\* UpdateMap
\* ------------------------------------------------------------------------

\* m[k] = v on a std::unordered_map.
MapSet(m, k, v) == [x \in (DOMAIN m) \cup {k} |-> IF x = k THEN v ELSE m[x]]

\* groups_windows.erase of the entry of key k.
MapRemove(m, k) == [x \in (DOMAIN m) \ {k} |-> m[x]]

\* A setToUpdate that replaces the window set of the group instead of adding to it.
setToUpdate_Overwrite(s, gID, wID) ==
    [s EXCEPT !.groups_windows = MapSet(@, gID, {wID})]

\* UpdateMap::setToUpdate.
setToUpdate(s, gID, wID) ==
    [s EXCEPT !.groups_windows =
        MapSet(@, gID, (IF gID \in DOMAIN @ THEN @[gID] ELSE {}) \cup {wID})]

\* A notify that posts no empty event.
notify_NoEmptyEvent(s, gID, wID) == setToUpdate(s, gID, wID)

\* UpdateMap::notify: setToUpdate, then glfwPostEmptyEvent.
notify(s, gID, wID) ==
    [setToUpdate(s, gID, wID) EXCEPT !.emptyEvents = TRUE]

\* A popGroup that always takes the entry at begin().
popGroup_NoSubsume(s, first) ==
    IF s.groups_windows = <<>>
    THEN [st |-> s, gID |-> NoWindowGroupID, wIDs |-> {}]
    ELSE [st |-> [s EXCEPT !.groups_windows = MapRemove(@, first)],
          gID |-> first, wIDs |-> s.groups_windows[first]]

\* UpdateMap::popGroup. first is the key of groups_windows.begin(), which the hash
\* table decides; it is read only when the map is not empty.
popGroup(s, first) ==
    LET gw == s.groups_windows
        gIt == IF AllWindowGroupIDs \in DOMAIN gw THEN AllWindowGroupIDs
               ELSE IF AnyWindowGroupID \in DOMAIN gw THEN AnyWindowGroupID
               ELSE NoWindowGroupID
    IN  IF gw = <<>>
        THEN [st |-> s, gID |-> NoWindowGroupID, wIDs |-> {}]
        ELSE IF gIt # NoWindowGroupID /\ AllWindowIDs \in gw[gIt]
             THEN [st |-> [s EXCEPT !.groups_windows = <<>>],
                   gID |-> AllWindowGroupIDs, wIDs |-> {AllWindowIDs}]
             ELSE [st |-> [s EXCEPT !.groups_windows = MapRemove(@, first)],
                   gID |-> first, wIDs |-> gw[first]]

\* UpdateMap::empty.
empty(s) == s.groups_windows = <<>>

\* ------------------------------------------------------------------------
\* Window: the ranked lists of event handlers and drawables
\* ------------------------------------------------------------------------

EventHandlers == 1 .. MaxHandlers
Drawables == 1 .. MaxDrawables
Ranks == 0 .. MaxRank

\* The ID of the window whose lists eventHandlers and drawables are.
BoundWindowID == 0

\* A std::deque iterator is a slot of the deque. Slots are counted here from begin(),
\* so that the element at position i is in slot i. Inserting or erasing at an end of
\* the deque moves no element; in the middle it moves the elements of one side by one
\* slot, the front side or the back side as the library chooses. The iterators the
\* lookup map holds stay on the slot they were taken at, whatever element is there
\* afterwards. NoSlot is an iterator whose slot holds no element.
NoSlot == 0

\* The two sides a std::deque can move.
Sides == {"front", "back"}

\* The iterators of map when begin() has moved so that every slot counts delta more,
\* in a deque that now has n elements.
Reslot(map, delta, n) ==
    [k \in DOMAIN map |->
        IF map[k] # NoSlot /\ (map[k] + delta) \in 1 .. n THEN map[k] + delta ELSE NoSlot]

\* std::deque::erase of the element in slot q of the ranked list d = [list, map].
DequeErase(d, q, side) ==
    LET n == Len(d.list)
        front == q = 1 \/ (q # n /\ side = "front")
    IN  [list |-> SubSeq(d.list, 1, q - 1) \o SubSeq(d.list, q + 1, n),
         map |-> Reslot(d.map, IF front THEN 0 - 1 ELSE 0, n - 1)]

\* std::deque::insert of x before the element in slot p (p = Len + 1 is end()).
DequeInsert(d, p, x, side) ==
    LET n == Len(d.list)
        front == p = 1 \/ (p # n + 1 /\ side = "front")
    IN  [list |-> InsertAt(d.list, p, x),
         map |-> Reslot(d.map, IF front THEN 1 ELSE 0, n + 1)]

\* erase(position) with an iterator read from the map. Erasing through an iterator
\* whose slot holds no element is undefined: some element goes (the one in slot
\* victim), or the process dies (victim = NoSlot).
EraseThrough(d, position, side, victim) ==
    LET q == IF position # NoSlot THEN position ELSE victim
    IN  IF q = NoSlot
        THEN [list |-> d.list, map |-> d.map, ok |-> FALSE]
        ELSE [list |-> DequeErase(d, q, side).list, map |-> DequeErase(d, q, side).map,
              ok |-> TRUE]

\* The body of Window::bindEventHandler and of Window::bindDrawable on the ranked
\* list d: obj is erased through the iterator the map has for it, if any, and then
\* inserted at std::lower_bound of its rank.
RankedBind(d, obj, r, eraseSide, insertSide, victim) ==
    LET e == IF obj \in DOMAIN d.map
             THEN EraseThrough(d, d.map[obj], eraseSide, victim)
             ELSE [list |-> d.list, map |-> MapSet(d.map, obj, NoSlot), ok |-> TRUE]
        p == LowerBound([i \in 1 .. Len(e.list) |-> e.list[i].rank], r)
        n == DequeInsert(e, p, [object |-> obj, rank |-> r], insertSide)
    IN  IF e.ok
        THEN [list |-> n.list, map |-> MapSet(n.map, obj, p), ok |-> TRUE]
        ELSE [list |-> d.list, map |-> d.map, ok |-> FALSE]

\* The body of Window::unbindEventHandler and of Window::unbindDrawable.
RankedUnbind(d, obj, eraseSide, victim) ==
    IF obj \in DOMAIN d.map
    THEN LET e == EraseThrough(d, d.map[obj], eraseSide, victim)
         IN  IF e.ok
             THEN [list |-> e.list, map |-> MapRemove(e.map, obj), ok |-> TRUE]
             ELSE [list |-> d.list, map |-> d.map, ok |-> FALSE]
    ELSE [list |-> d.list, map |-> d.map, ok |-> TRUE]

\* Window::bindEventHandler.
bindEventHandler(s, eh, r, eraseSide, insertSide, victim) ==
    LET b == RankedBind([list |-> s.eventHandlers, map |-> s.eventHandlerMap],
                        eh, r, eraseSide, insertSide, victim)
    IN  [s EXCEPT !.eventHandlers = b.list, !.eventHandlerMap = b.map,
                  !.aborted = ~b.ok]

\* Window::unbindEventHandler.
unbindEventHandler(s, eh, eraseSide, victim) ==
    LET b == RankedUnbind([list |-> s.eventHandlers, map |-> s.eventHandlerMap],
                          eh, eraseSide, victim)
    IN  [s EXCEPT !.eventHandlers = b.list, !.eventHandlerMap = b.map,
                  !.aborted = ~b.ok]

\* Window::bindDrawable.
bindDrawable(s, d, r, eraseSide, insertSide, victim) ==
    LET b == RankedBind([list |-> s.drawables, map |-> s.drawableMap],
                        d, r, eraseSide, insertSide, victim)
    IN  [s EXCEPT !.drawables = b.list, !.drawableMap = b.map, !.aborted = ~b.ok]

\* Window::unbindDrawable.
unbindDrawable(s, d, eraseSide, victim) ==
    LET b == RankedUnbind([list |-> s.drawables, map |-> s.drawableMap],
                          d, eraseSide, victim)
    IN  [s EXCEPT !.drawables = b.list, !.drawableMap = b.map, !.aborted = ~b.ok]

\* A handleEvent that goes on after a handler has handled the event.
RECURSIVE handleEvent_CallsAll(_, _, _)
handleEvent_CallsAll(s, e, i) ==
    IF e.windowID # BoundWindowID \/ i > Len(s.eventHandlers) THEN <<>>
    ELSE (IF e.includes[s.eventHandlers[i].object] THEN <<i>> ELSE <<>>)
             \o handleEvent_CallsAll(s, e, i + 1)

\* Window::handleEvent from the handler in slot i on: the slots of the handlers whose
\* handle() is called, in the order of the calls. e.windowID is the window the event
\* is for; e.includes[h] says that getHandledEventTypes() of h has the type of the
\* event, e.handles[h] is what handle(e) of h returns.
RECURSIVE handleEvent(_, _, _)
handleEvent(s, e, i) ==
    IF e.windowID # BoundWindowID \/ i > Len(s.eventHandlers) THEN <<>>
    ELSE LET h == s.eventHandlers[i].object IN
         IF e.includes[h] /\ e.handles[h] THEN <<i>>
         ELSE (IF e.includes[h] THEN <<i>> ELSE <<>>) \o handleEvent(s, e, i + 1)

\* Window::draw: the drawables whose draw() is called, in the order of the calls.
draw(s) == [i \in 1 .. Len(s.drawables) |-> s.drawables[i].object]

\* ------------------------------------------------------------------------
\* WindowGroup: the objects
\* ------------------------------------------------------------------------

\* A slot of the heap that holds no WindowGroup.
NullGroupObj == [null |-> TRUE]

\* WindowGroup::WindowGroup. held: the caller keeps the WindowGroupPointer that
\* newGroup returned; destroyed: destroy() has run on the object.
GroupCtor(id, held) ==
    [groupID |-> id, attachedWindows |-> {}, windowsToUpdate |-> {},
     doPoll |-> FALSE, doLoop |-> FALSE, joinable |-> FALSE,
     held |-> held, destroyed |-> FALSE]

\* The WindowGroup objects that exist.
GroupObjects(s) == {o \in ObjRefs : s.groupObjs[o] # NullGroupObj}

\* An isRunningConcurrently with the test the other way round.
isRunningConcurrently_Inverted(s, o) == ~s.groupObjs[o].joinable

\* WindowGroup::isRunningConcurrently: threadOfLoop.joinable().
isRunningConcurrently(s, o) == s.groupObjs[o].joinable

\* A stopAndWait that also drops what is pending in the group.
stopAndWait_DropsPending(s, o) ==
    [s EXCEPT !.groupObjs[o].doLoop = FALSE, !.groupObjs[o].joinable = FALSE,
              !.groupObjs[o].windowsToUpdate = {}]

\* WindowGroup::stopAndWait: with a joinable thread, clears doLoop, signals the
\* condition variable and joins the thread, which is then no longer joinable.
stopAndWait(s, o) ==
    IF s.groupObjs[o].joinable
    THEN [s EXCEPT !.groupObjs[o].doLoop = FALSE, !.groupObjs[o].joinable = FALSE]
    ELSE s

\* WindowGroup::stop.
stop(s, o) == [s EXCEPT !.groupObjs[o].doLoop = FALSE]

\* WindowGroup::runLoopConcurrently. Assigning a new std::thread to threadOfLoop
\* while it is joinable calls std::terminate.
runLoopConcurrently(s, o) ==
    IF s.groupObjs[o].joinable
    THEN [s EXCEPT !.groupObjs[o].doLoop = TRUE, !.aborted = TRUE]
    ELSE s

\* WindowGroup::setPoll (the notify_one has no thread to wake while none waits).
setPoll(s, o, poll) == [s EXCEPT !.groupObjs[o].doPoll = poll]

\* A destroy that leaves the windows of the group mapped to it.
GroupDestroy_KeepsMapping(s, o) ==
    LET s0 == stopAndWait(s, o)
        g == s0.groupObjs[o]
    IN  [s0 EXCEPT !.groupObjs[o].attachedWindows = {},
                   !.groupObjs[o].destroyed = TRUE,
                   !.freedWindowGroupIDs = InsertAt(@, LowerBound(@, g.groupID), g.groupID)]

\* WindowGroup::destroy.
GroupDestroy(s, o) ==
    LET s0 == stopAndWait(s, o)
        g == s0.groupObjs[o]
        wgm == [w \in (DOMAIN s0.windowGroupMap) \cup g.attachedWindows |->
                   IF w \in g.attachedWindows THEN NoWindowGroupID
                   ELSE s0.windowGroupMap[w]]
    IN  [s0 EXCEPT !.windowGroupMap = wgm,
                   !.groupObjs[o].attachedWindows = {},
                   !.groupObjs[o].destroyed = TRUE,
                   !.freedWindowGroupIDs = InsertAt(@, LowerBound(@, g.groupID), g.groupID)]

\* WindowGroup::~WindowGroup, run when the last WindowGroupPointer to o goes.
GroupDtor(s, o) ==
    [GroupDestroy(s, o) EXCEPT !.groupObjs[o] = NullGroupObj]

\* A WindowGroupPointer to o was dropped: the object dies with its last owner.
ReleaseGroup(s, o) ==
    IF s.groupObjs[o].held \/ o \in Range(s.windowGroups)
    THEN s
    ELSE GroupDtor(s, o)

\* WindowGroup::attachWindow.
attachWindow(s, o, windowID) ==
    [s EXCEPT !.groupObjs[o].attachedWindows = @ \cup {windowID},
              !.windowGroupMap = MapSet(@, windowID, s.groupObjs[o].groupID)]

\* WindowGroup::detachWindow.
detachWindow(s, o, windowID) ==
    IF windowID \in s.groupObjs[o].attachedWindows
    THEN [s EXCEPT !.groupObjs[o].attachedWindows = @ \ {windowID},
                   !.windowGroupMap = MapSet(@, windowID, NoWindowGroupID)]
    ELSE s

\* WindowGroup::setWindowToUpdate.
setWindowToUpdate(s, o, wID) ==
    [s EXCEPT !.groupObjs[o].windowsToUpdate = @ \cup {wID}]

\* makeContextCurrent, draw, swapBuffers, doneCurrentContext on each window of ids.
DrawAll(s, ids) == [s EXCEPT !.draws = [w \in WIDs |-> IF w \in ids THEN @[w] + 1 ELSE @[w]]]

\* A pass that drops the pending windows it does not draw.
NotifyAll_Drop(s, ids) == s

RECURSIVE NotifyAll(_, _)
\* UpdateMap::notify(AnyWindowGroupID, id) for every id of ids.
NotifyAll(s, ids) ==
    IF ids = {} THEN s
    ELSE LET id == CHOOSE x \in ids : TRUE
         IN  NotifyAll(notify(s, AnyWindowGroupID, id), ids \ {id})

\* A pass that is selective also in poll mode.
updateWindows_PollIgnored(s, o) ==
    LET g == s.groupObjs[o]
        toDraw == g.windowsToUpdate \cap g.attachedWindows
    IN  [NotifyAll(DrawAll(s, toDraw), g.windowsToUpdate \ g.attachedWindows)
            EXCEPT !.groupObjs[o].windowsToUpdate = {}]

\* WindowGroup::updateWindows, the redraw pass. Window::getWindow returns a null
\* pointer for an ID with no window, and the pass calls a method on it: the process dies.
updateWindows(s, o) ==
    LET g == s.groupObjs[o]
        all == \/ g.doPoll
               \/ WholeGroupWindowIDs \in g.windowsToUpdate
               \/ AllWindowIDs \in g.windowsToUpdate
        toDraw == IF all THEN g.attachedWindows
                  ELSE g.windowsToUpdate \cap g.attachedWindows
        toForward == IF all THEN {} ELSE g.windowsToUpdate \ g.attachedWindows
    IN  IF \E id \in toDraw : getWindow(s, id) = NullWindow
        THEN [s EXCEPT !.aborted = TRUE]
        ELSE [NotifyAll(DrawAll(s, toDraw), toForward)
                 EXCEPT !.groupObjs[o].windowsToUpdate = {}]

\* A process that only signals and leaves the redraw pass to a worker, running or not.
process_OnlySignals(s, o) == s

\* WindowGroup::process (signalling the condition variable changes no state).
process(s, o) ==
    IF isRunningConcurrently(s, o) THEN s ELSE updateWindows(s, o)

\* ------------------------------------------------------------------------
\* WindowGroup: the registry
\* ------------------------------------------------------------------------

\* WindowGroup::newGroupID.
newGroupID(s) ==
    LET reuse == s.freedWindowGroupIDs # <<>>
        id == IF reuse THEN Head(s.freedWindowGroupIDs) ELSE Len(s.windowGroups)
        fl == IF reuse THEN Tail(s.freedWindowGroupIDs) ELSE s.freedWindowGroupIDs
    IN  [st |-> [s EXCEPT !.freedWindowGroupIDs = fl,
                          !.windowGroups = Resize(@, id + 1, NullRef)],
         id |-> id]

\* WindowGroup::newGroup. o is where make_shared puts the new object; assigning it to
\* windowGroups[id] drops the pointer that was stored there.
newGroup(s, o, held) ==
    LET n == newGroupID(s)
        old == n.st.windowGroups[n.id + 1]
        s1 == [n.st EXCEPT !.groupObjs[o] = GroupCtor(n.id, held),
                           !.windowGroups[n.id + 1] = o]
    IN  [st |-> IF old # NullRef THEN ReleaseGroup(s1, old) ELSE s1, id |-> n.id]

\* WindowGroup::getGroup.
getGroup(s, id) ==
    IF id < Len(s.windowGroups) THEN s.windowGroups[id + 1] ELSE NullRef

\* WindowGroup::getWindowGroup.
getWindowGroup(s, id) ==
    IF id \in DOMAIN s.windowGroupMap THEN s.windowGroupMap[id] ELSE NoWindowGroupID

\* WindowGroup::deleteWindowGroup: destroy(), then reset() drops the registry's pointer.
deleteWindowGroup(s, id) ==
    IF id < Len(s.windowGroups) /\ s.windowGroups[id + 1] # NullRef
    THEN LET o == s.windowGroups[id + 1]
             s1 == GroupDestroy(s, o)
         IN  ReleaseGroup([s1 EXCEPT !.windowGroups[id + 1] = NullRef], o)
    ELSE s

\* WindowGroup::getAllWindowGroupIDs.
getAllWindowGroupIDs(s) ==
    {s.groupObjs[s.windowGroups[i]].groupID :
        i \in {j \in 1 .. Len(s.windowGroups) : s.windowGroups[j] # NullRef}}

\* WindowGroup::getAllUngroupedWindowIDs: every key of windowGroupMap is erased from
\* the window IDs, whatever group ID it maps to.
getAllUngroupedWindowIDs(s) == getAllWindowIDs(s) \ DOMAIN s.windowGroupMap

\* ------------------------------------------------------------------------
\* WindowManager::mainLoop
\* ------------------------------------------------------------------------

\* makeContextCurrent, draw, swapBuffers, doneCurrentContext on each window of ids
\* that Window::getWindow finds.
DrawExisting(s, ids) == DrawAll(s, {id \in ids : getWindow(s, id) # NullWindow})

\* In the operators below CHOOSE r \in {F(x) : x \in {e}} : TRUE is F(e) with e
\* computed once: the state a statement leaves is the state the next one starts from.

RECURSIVE MarkAndProcessAll(_, _)
\* For every id of gIDs with a group: setWindowToUpdate(WholeGroupWindowIDs), process().
MarkAndProcessAll(s, gIDs) ==
    IF gIDs = {} THEN s
    ELSE LET id == CHOOSE x \in gIDs : TRUE
             o == getGroup(s, id)
             s1 == IF o # NullRef
                   THEN process(setWindowToUpdate(s, o, WholeGroupWindowIDs), o)
                   ELSE s
         IN  CHOOSE r \in {MarkAndProcessAll(x, gIDs \ {id}) : x \in {s1}} : TRUE

RECURSIVE ProcessAll(_, _)
\* For every id of gIDs with a group: process().
ProcessAll(s, gIDs) ==
    IF gIDs = {} THEN s
    ELSE LET id == CHOOSE x \in gIDs : TRUE
             o == getGroup(s, id)
         IN  CHOOSE r \in {ProcessAll(x, gIDs \ {id}) :
                               x \in {IF o # NullRef THEN process(s, o) ELSE s}} : TRUE

RECURSIVE SetAllToUpdate(_, _)
\* For every id of wIDs whose window is in a group: setWindowToUpdate(id) on the group.
SetAllToUpdate(s, wIDs) ==
    IF wIDs = {} THEN s
    ELSE LET id == CHOOSE x \in wIDs : TRUE
             o == getGroup(s, getWindowGroup(s, id))
         IN  CHOOSE r \in {SetAllToUpdate(x, wIDs \ {id}) :
                               x \in {IF o # NullRef THEN setWindowToUpdate(s, o, id)
                                      ELSE s}} : TRUE

\* A drain that drops the entry of a group that does not exist.
Resolve_DropsMissingGroup(s, gID, wIDs) ==
    IF gID = AllWindowGroupIDs
    THEN CHOOSE r \in {DrawExisting(s1, getAllUngroupedWindowIDs(s1)) :
                          s1 \in {MarkAndProcessAll(s, getAllWindowGroupIDs(s))}} : TRUE
    ELSE LET o == getGroup(s, gID) IN
         IF o # NullRef
         THEN process([s EXCEPT !.groupObjs[o].windowsToUpdate = @ \cup wIDs], o)
         ELSE s

\* The body of mainLoop's drain for one popped entry (gID, wIDs).
Resolve(s, gID, wIDs) ==
    IF gID = AllWindowGroupIDs
    THEN CHOOSE r \in {DrawExisting(s1, getAllUngroupedWindowIDs(s1)) :
                          s1 \in {MarkAndProcessAll(s, getAllWindowGroupIDs(s))}} : TRUE
    ELSE LET o == getGroup(s, gID) IN
         IF o # NullRef
         THEN process([s EXCEPT !.groupObjs[o].windowsToUpdate = @ \cup wIDs], o)
         ELSE LET grouped == {id \in wIDs : getGroup(s, getWindowGroup(s, id)) # NullRef}
                  gIDs == {s.groupObjs[getGroup(s, getWindowGroup(s, id))].groupID :
                              id \in grouped}
              IN  CHOOSE r \in {ProcessAll(s2, gIDs) :
                                    s2 \in {DrawExisting(SetAllToUpdate(s, grouped),
                                                         wIDs \ grouped)}} : TRUE

RECURSIVE CloseAll_KeepsAttached(_, _)
\* A close sweep that deletes each window of ids and leaves it in its group.
CloseAll_KeepsAttached(s, ids) ==
    IF ids = {} THEN s
    ELSE LET id == CHOOSE x \in ids : TRUE
         IN  CHOOSE r \in {CloseAll_KeepsAttached(x, ids \ {id}) :
                               x \in {deleteWindow(s, id)}} : TRUE

RECURSIVE CloseAll(_, _)
\* mainLoop's close sweep: each window of ids is detached from the group the map gives
\* for it, if that group exists, and deleted.
CloseAll(s, ids) ==
    IF ids = {} THEN s
    ELSE LET id == CHOOSE x \in ids : TRUE
             o == getGroup(s, getWindowGroup(s, id))
             s1 == IF o # NullRef THEN detachWindow(s, o, id) ELSE s
         IN  CHOOSE r \in {CloseAll(x, ids \ {id}) : x \in {deleteWindow(s1, id)}} : TRUE

RECURSIVE CloseFlags(_, _)
\* The close flag of each window of ids is set while events are delivered.
CloseFlags(s, ids) ==
    IF ids = {} THEN s
    ELSE LET id == CHOOSE x \in ids : TRUE
         IN  CHOOSE r \in {CloseFlags(x, ids \ {id}) : x \in {setShouldClose(s, id)}} : TRUE

\* WindowManager::inputMouseButtonCallback for a mouse button event of window wID,
\* which the window system calls while mainLoop manages the events. close says that a
\* handler bound to the window sets the window's close flag when it handles the event.
inputMouseButtonCallback(s, wID, close) ==
    IF getWindow(s, wID) = NullWindow THEN s
    ELSE LET s1 == IF close THEN setShouldClose(s, wID) ELSE s
             gID == getWindowGroup(s1, wID)
             g == getGroup(s1, gID)
         IN  IF g # NullRef /\ isRunningConcurrently(s1, g)
             THEN process(setWindowToUpdate(s1, g, wID), g)
             ELSE setToUpdate(s1, gID, wID)

\* WindowManager::setWaitTimeout.
setWaitTimeout(s, timeout) ==
    LET s1 == [s EXCEPT !.waitTimeout = timeout] IN
    IF timeout = "poll" THEN notify(s1, AnyWindowGroupID, AllWindowIDs) ELSE s1

\* ------------------------------------------------------------------------
\* Actions: the window registry
\* ------------------------------------------------------------------------

CanBookWindowID == freedWindowIDs # <<>> \/ Len(windows) < MaxWindows

\* Window::newWindow succeeding, with or without a window to share the context with.
NewWindow(share, handle) ==
    /\ ~aborted
    /\ CanBookWindowID
    /\ share = NoShare \/ share \in LiveWindows(St)
    /\ handle \notin UsedHandles(St)
    /\ LET r == newWindow(St, share, handle) IN
       /\ Commit(r.st)
       /\ lastOp' = Call("newWindow", share, handle, r.id, r.st)

\* Window::newWindow when glfwCreateWindow returns a null pointer: the call throws.
NewWindowFails(share) ==
    /\ ~aborted
    /\ CanBookWindowID
    /\ share = NoShare \/ share \in LiveWindows(St)
    /\ LET r == newWindow(St, share, NullHandle) IN
       /\ Commit(r.st)
       /\ lastOp' = Call("newWindowFailed", share, NullHandle, r.id, r.st)

\* Window::deleteWindow.
DeleteWindow(id) ==
    /\ ~aborted
    /\ LET s1 == deleteWindow(St, id) IN
       /\ Commit(s1)
       /\ lastOp' = Call("deleteWindow", id, getWindow(St, id) # NullWindow, 0, s1)

\* ------------------------------------------------------------------------
\* Actions: the groups
\* ------------------------------------------------------------------------

\* The groups a caller may still use: the object exists and was not destroyed.
Usable(o) == groupObjs[o] # NullGroupObj /\ ~groupObjs[o].destroyed

\* The native handle glfwCreateWindow returns when handles are told apart only by
\* being in use or not.
FreshHandle == CHOOSE h \in Handles \ UsedHandles(St) :
                   \A k \in Handles \ UsedHandles(St) : h <= k

\* Where make_shared puts the next WindowGroup.
FreshObj == CHOOSE o \in ObjRefs \ GroupObjects(St) :
                \A k \in ObjRefs \ GroupObjects(St) : o <= k

\* WindowGroup::newGroup; the caller keeps the returned pointer (held) or drops it.
NewGroup(held) ==
    /\ ~aborted
    /\ freedWindowGroupIDs # <<>> \/ Len(windowGroups) < MaxGroups
    /\ GroupObjects(St) # ObjRefs
    /\ LET r == newGroup(St, FreshObj, held) IN
       /\ Len(r.st.freedWindowGroupIDs) <= MaxFreedGroupIDs
       /\ Commit(r.st)
       /\ lastOp' = Call("newGroup", FreshObj, held, r.id, r.st)

\* WindowGroup::deleteWindowGroup; b is the group that was registered at id and ret the
\* windows that were attached to it.
DeleteWindowGroup(id) ==
    /\ ~aborted
    /\ LET s1 == deleteWindowGroup(St, id) IN
       /\ Len(s1.freedWindowGroupIDs) <= MaxFreedGroupIDs
       /\ Commit(s1)
       /\ lastOp' = Call("deleteWindowGroup", id, getGroup(St, id),
                         IF getGroup(St, id) # NullRef
                         THEN groupObjs[getGroup(St, id)].attachedWindows ELSE {}, s1)

\* The caller drops the WindowGroupPointer it kept.
DropGroupPointer(o) ==
    /\ ~aborted
    /\ groupObjs[o] # NullGroupObj
    /\ groupObjs[o].held
    /\ LET s1 == ReleaseGroup([St EXCEPT !.groupObjs[o].held = FALSE], o) IN
       /\ Len(s1.freedWindowGroupIDs) <= MaxFreedGroupIDs
       /\ Commit(s1)
       /\ lastOp' = Call("dropGroupPointer", o, 0, 0, s1)

\* WindowGroup::attachWindow of an existing window.
AttachWindow(o, w) ==
    /\ ~aborted
    /\ Usable(o)
    /\ w \in LiveWindows(St)
    /\ LET s1 == attachWindow(St, o, w) IN
       /\ Commit(s1)
       /\ lastOp' = Call("attachWindow", o, w, 0, s1)

\* WindowGroup::detachWindow.
DetachWindow(o, w) ==
    /\ ~aborted
    /\ Usable(o)
    /\ LET s1 == detachWindow(St, o, w) IN
       /\ Commit(s1)
       /\ lastOp' = Call("detachWindow", o, w, 0, s1)

\* WindowGroup::setPoll.
SetPoll(o, poll) ==
    /\ ~aborted
    /\ Usable(o)
    /\ LET s1 == setPoll(St, o, poll) IN
       /\ Commit(s1)
       /\ lastOp' = Call("setPoll", o, poll, 0, s1)

\* WindowGroup::runLoopConcurrently; ret is what isRunningConcurrently() says afterwards.
RunLoopConcurrently(o) ==
    /\ ~aborted
    /\ Usable(o)
    /\ LET s1 == runLoopConcurrently(St, o) IN
       /\ Commit(s1)
       /\ lastOp' = Call("runLoopConcurrently", o, 0, isRunningConcurrently(s1, o), s1)

\* WindowGroup::stopAndWait.
StopAndWait(o) ==
    /\ ~aborted
    /\ Usable(o)
    /\ LET s1 == stopAndWait(St, o) IN
       /\ Commit(s1)
       /\ lastOp' = Call("stopAndWait", o, 0, 0, s1)

\* WindowGroup::stop.
Stop(o) ==
    /\ ~aborted
    /\ Usable(o)
    /\ LET s1 == stop(St, o) IN
       /\ Commit(s1)
       /\ lastOp' = Call("stop", o, 0, 0, s1)

\* WindowGroup::setWindowToUpdate.
SetWindowToUpdate(o, w) ==
    /\ ~aborted
    /\ Usable(o)
    /\ LET s1 == setWindowToUpdate(St, o, w) IN
       /\ Commit(s1)
       /\ lastOp' = Call("setWindowToUpdate", o, w, 0, s1)

\* WindowGroup::process.
Process(o) ==
    /\ ~aborted
    /\ Usable(o)
    /\ LET s1 == process(St, o) IN
       /\ Commit(s1)
       /\ lastOp' = Call("process", o, 0, 0, s1)

\* ------------------------------------------------------------------------
\* Actions: the update map
\* ------------------------------------------------------------------------

\* UpdateMap::setToUpdate.
SetToUpdate(gID, wID) ==
    /\ ~aborted
    /\ LET s1 == setToUpdate(St, gID, wID) IN
       /\ Commit(s1)
       /\ lastOp' = Call("setToUpdate", gID, wID, 0, s1)

\* UpdateMap::notify.
Notify(gID, wID) ==
    /\ ~aborted
    /\ LET s1 == notify(St, gID, wID) IN
       /\ Commit(s1)
       /\ lastOp' = Call("notify", gID, wID, 0, s1)

\* UpdateMap::popGroup; a and b are the gID and the wIDs it gives back, ret is the map
\* it was called on.
PopGroup ==
    /\ ~aborted
    /\ \E first \in (DOMAIN groups_windows) \cup {NoWindowGroupID} :
           /\ (groups_windows # <<>>) => first \in DOMAIN groups_windows
           /\ (groups_windows = <<>>) => first = NoWindowGroupID
           /\ LET r == popGroup(St, first) IN
              /\ Commit(r.st)
              /\ lastOp' = Call("popGroup", r.gID, r.wIDs, groups_windows, r.st)

\* ------------------------------------------------------------------------
\* Actions: mainLoop and the threads around it
\* ------------------------------------------------------------------------

\* mainLoop is entered: the first rendering is ensured.
MainLoopStart ==
    /\ ~aborted
    /\ mainPC = "idle"
    /\ LET s1 == [setToUpdate(St, AllWindowGroupIDs, AllWindowIDs) EXCEPT !.mainPC = "drain"]
       IN  /\ Commit(s1)
           /\ lastOp' = Call("mainLoopStart", 0, 0, 0, s1)

\* One turn of the drain: an entry is popped and resolved. a and b are the popped gID
\* and wIDs, ret is the set of windows that existed when it was popped.
MainLoopResolve ==
    /\ ~aborted
    /\ mainPC = "drain"
    /\ ~empty(St)
    /\ \E first \in DOMAIN groups_windows :
           \E r \in {popGroup(St, first)} :
               \E s1 \in {Resolve(r.st, r.gID, r.wIDs)} :
                   /\ Commit(s1)
                   /\ lastOp' = Call("resolve", r.gID, r.wIDs, getAllWindowIDs(St), s1)

\* The drain ends: UpdateMap::empty() is true.
MainLoopDrained ==
    /\ ~aborted
    /\ mainPC = "drain"
    /\ empty(St)
    /\ LET s1 == [St EXCEPT !.mainPC = "events"]
       IN  /\ Commit(s1)
           /\ lastOp' = Call("drained", 0, 0, 0, s1)

\* The events are managed: glfwPollEvents, glfwWaitEvents or glfwWaitEventsTimeout
\* returns, the close sweep runs and the loop condition is tested. closing are the
\* windows the delivered events ask to close; input says that the window system had
\* events. glfwWaitEvents returns only with an event, posted or from the window system.
\* ret is the set of swept windows that a registered group had attached.
MainLoopEvents(closing, input) ==
    /\ ~aborted
    /\ mainPC = "events"
    /\ closing # {} => input
    /\ waitTimeout = "wait" => (emptyEvents \/ input)
    /\ \E s0 \in {[CloseFlags(St, closing) EXCEPT !.emptyEvents = FALSE]} :
       \E s1 \in {IF waitTimeout = "poll"
                  THEN setToUpdate(s0, AllWindowGroupIDs, AllWindowIDs)
                  ELSE s0} :
       \E s2 \in {CloseAll(s1, windowsToClose(s1))} :
       \E s3 \in {[s2 EXCEPT !.mainPC = IF isAnyWindowOpen(s2) THEN "drain" ELSE "done"]} :
           /\ Commit(s3)
           /\ lastOp' = Call("events", closing, input,
                              {w \in windowsToClose(s1) :
                                  getGroup(s1, getWindowGroup(s1, w)) # NullRef}, s3)

\* The events are managed and the window system has a mouse button event for window
\* wID: inputMouseButtonCallback runs inside glfwPollEvents, glfwWaitEvents or
\* glfwWaitEventsTimeout, then the close sweep runs and the loop condition is tested.
\* ret says that the window's close flag was set before the event.
MainLoopInput(wID, close) ==
    /\ ~aborted
    /\ mainPC = "events"
    /\ wID \in LiveWindows(St)
    /\ \E s0 \in {[inputMouseButtonCallback(St, wID, close) EXCEPT !.emptyEvents = FALSE]} :
       \E s1 \in {IF waitTimeout = "poll"
                  THEN setToUpdate(s0, AllWindowGroupIDs, AllWindowIDs)
                  ELSE s0} :
       \E s2 \in {CloseAll(s1, windowsToClose(s1))} :
       \E s3 \in {[s2 EXCEPT !.mainPC = IF isAnyWindowOpen(s2) THEN "drain" ELSE "done"]} :
           /\ Commit(s3)
           /\ lastOp' = Call("input", wID, close, shouldClose(St, wID), s3)

\* UpdateMap::notify called by a thread other than the one in mainLoop.
NotifyFromThread(gID, wID) ==
    /\ ~aborted
    /\ notifies < MaxNotifies
    /\ LET s1 == [notify(St, gID, wID) EXCEPT !.notifies = @ + 1]
       IN  /\ Commit(s1)
           /\ lastOp' = Call("notify", gID, wID, 0, s1)

\* WindowManager::setWaitTimeout.
SetWaitTimeout(timeout) ==
    /\ ~aborted
    /\ timeout # waitTimeout
    /\ LET s1 == setWaitTimeout(St, timeout)
       IN  /\ Commit(s1)
           /\ lastOp' = Call("setWaitTimeout", timeout, 0, 0, s1)

\* mainLoop returns to its caller, which goes on.
MainLoopReturns ==
    /\ ~aborted
    /\ mainPC = "done"
    /\ LET s1 == [St EXCEPT !.mainPC = "idle"]
       IN  /\ Commit(s1)
           /\ lastOp' = Call("mainLoopReturns", 0, 0, 0, s1)

\* ------------------------------------------------------------------------
\* Actions: the ranked lists of a window
\* ------------------------------------------------------------------------

\* Window::bindEventHandler.
BindEventHandler(eh, r, eraseSide, insertSide, victim) ==
    /\ ~aborted
    /\ victim <= Len(eventHandlers)
    /\ LET s1 == bindEventHandler(St, eh, r, eraseSide, insertSide, victim) IN
       /\ Commit(s1)
       /\ lastOp' = Call("bindEventHandler", eh, r, 0, s1)

\* Window::unbindEventHandler.
UnbindEventHandler(eh, eraseSide, victim) ==
    /\ ~aborted
    /\ victim <= Len(eventHandlers)
    /\ LET s1 == unbindEventHandler(St, eh, eraseSide, victim) IN
       /\ Commit(s1)
       /\ lastOp' = Call("unbindEventHandler", eh, 0, 0, s1)

\* Window::handleEvent; ret is the sequence of the slots whose handler was called.
HandleEvent(e) ==
    /\ ~aborted
    /\ Commit(St)
    /\ lastOp' = Call("handleEvent", e, 0, handleEvent(St, e, 1), St)

\* Window::bindDrawable.
BindDrawable(d, r, eraseSide, insertSide, victim) ==
    /\ ~aborted
    /\ victim <= Len(drawables)
    /\ LET s1 == bindDrawable(St, d, r, eraseSide, insertSide, victim) IN
       /\ Commit(s1)
       /\ lastOp' = Call("bindDrawable", d, r, 0, s1)

\* Window::unbindDrawable.
UnbindDrawable(d, eraseSide, victim) ==
    /\ ~aborted
    /\ victim <= Len(drawables)
    /\ LET s1 == unbindDrawable(St, d, eraseSide, victim) IN
       /\ Commit(s1)
       /\ lastOp' = Call("unbindDrawable", d, 0, 0, s1)

\* Window::draw; ret is the sequence of the drawables drawn.
Draw ==
    /\ ~aborted
    /\ Commit(St)
    /\ lastOp' = Call("draw", 0, 0, draw(St), St)

\* ------------------------------------------------------------------------
\* Actions: threads inside the methods of a window
\* ------------------------------------------------------------------------

\* What callStack holds for a call of op on window w that has locked mutexes[m].mutex.
Frame(op, w, m) == [op |-> op, w |-> w, m |-> m]

\* A method of window w that locks the mutex of the window's slot is entered by
\* thread t: the lock is taken, for the std::lock_guard or by makeContextCurrent.
Enter(t, op, w) ==
    LET m == windows[w + 1].sharedMutexID IN
    /\ MayLock(St, t, m)
    /\ Commit([lock(St, t, m) EXCEPT !.callStack[t] = Append(@, Frame(op, w, m))])
    /\ lastOp' = Call(op, t, w, 0, St)

\* The method on top of the stack of thread t returns: its std::lock_guard unlocks.
Leave(t) ==
    LET f == callStack[t][Len(callStack[t])] IN
    /\ Commit([unlock(St, f.m) EXCEPT
                  !.callStack[t] = SubSeq(@, 1, Len(@) - 1)])
    /\ lastOp' = Call("return", t, f.w, 0, St)

\* Thread t enters Window::handleEvent of window w.
HandleEventBegins(t, w) ==
    /\ ~aborted
    /\ w \in LiveWindows(St)
    /\ callStack[t] = <<>>
    /\ Enter(t, "handleEvent", w)

\* Window::handleEvent returns on thread t.
HandleEventEnds(t) ==
    /\ ~aborted
    /\ callStack[t] # <<>>
    /\ callStack[t][Len(callStack[t])].op = "handleEvent"
    /\ Leave(t)

\* Thread t calls Window::makeContextCurrent on window w, as the redraw pass does
\* before it draws.
MakeContextCurrent(t, w) ==
    /\ ~aborted
    /\ w \in LiveWindows(St)
    /\ callStack[t] = <<>>
    /\ Enter(t, "makeContextCurrent", w)

\* Thread t enters Window::draw of window w, with the context of w made current
\* before or not.
DrawBegins(t, w) ==
    /\ ~aborted
    /\ w \in LiveWindows(St)
    /\ \/ callStack[t] = <<>>
       \/ /\ Len(callStack[t]) = 1
          /\ callStack[t][1].op = "makeContextCurrent"
          /\ callStack[t][1].w = w
    /\ Enter(t, "draw", w)

\* Window::draw returns on thread t.
DrawEnds(t) ==
    /\ ~aborted
    /\ callStack[t] # <<>>
    /\ callStack[t][Len(callStack[t])].op = "draw"
    /\ Leave(t)

\* Thread t calls Window::doneCurrentContext on the window whose context it made
\* current: the mutex of the window's slot is unlocked.
DoneCurrentContext(t) ==
    /\ ~aborted
    /\ Len(callStack[t]) = 1
    /\ callStack[t][1].op = "makeContextCurrent"
    /\ Commit([unlock(St, windows[callStack[t][1].w + 1].sharedMutexID) EXCEPT
                  !.callStack[t] = <<>>])
    /\ lastOp' = Call("doneCurrentContext", t, callStack[t][1].w, 0, St)

\* Window::globalMutex, as the mutex a frame of a thread's stack holds: the frames of
\* the methods of a window hold the mutex of the window's slot, a MutexID.
globalMutex == 0 - 1

\* Thread t is in a static method of Window that holds Window::globalMutex.
HoldsGlobalMutex(t) ==
    \E i \in 1 .. Len(callStack[t]) : callStack[t][i].m = globalMutex

\* std::recursive_mutex::lock on Window::globalMutex returns for thread t.
MayLockGlobalMutex(t) == \A u \in Threads \ {t} : ~HoldsGlobalMutex(u)

\* Thread t calls Window::isAnyWindowOpen: it takes Window::globalMutex and starts
\* the loop over windows. The w of the frame is the index the loop is at.
IsAnyWindowOpenBegins(t) ==
    /\ ~aborted
    /\ callStack[t] = <<>>
    /\ MayLockGlobalMutex(t)
    /\ Commit([St EXCEPT !.callStack[t] = <<Frame("isAnyWindowOpen", 0, globalMutex)>>])
    /\ lastOp' = Call("isAnyWindowOpen", t, 0, 0, St)

\* Thread t, in the loop of Window::isAnyWindowOpen at a window that exists, is at
\* the call of shouldClose(), which locks the mutex of the window's slot.
AtShouldClose(t) ==
    /\ callStack[t] # <<>>
    /\ callStack[t][Len(callStack[t])].op = "isAnyWindowOpen"
    /\ callStack[t][Len(callStack[t])].w < Len(windows)
    /\ windows[callStack[t][Len(callStack[t])].w + 1] # NullWindow

\* One turn of the loop of Window::isAnyWindowOpen on thread t: a null element is
\* passed over; on a window, shouldClose() locks the mutex of its slot, reads the flag
\* and unlocks, and the method returns true if the flag is clear. ret is what the
\* method returns when it returns in this turn.
IsAnyWindowOpenTests(t) ==
    /\ ~aborted
    /\ callStack[t] # <<>>
    /\ LET f == callStack[t][Len(callStack[t])] IN
       /\ f.op = "isAnyWindowOpen"
       /\ f.w < Len(windows)
       /\ AtShouldClose(t) => MayLock(St, t, windows[f.w + 1].sharedMutexID)
       /\ IF AtShouldClose(t) /\ ~shouldClose(St, f.w)
          THEN /\ Commit([St EXCEPT !.callStack[t] = <<>>])
               /\ lastOp' = Call("isAnyWindowOpen returns", t, f.w, TRUE, St)
          ELSE /\ Commit([St EXCEPT !.callStack[t] =
                                       <<Frame("isAnyWindowOpen", f.w + 1, globalMutex)>>])
               /\ lastOp' = Call("isAnyWindowOpen tests", t, f.w, 0, St)

\* The loop of Window::isAnyWindowOpen on thread t is over: the method returns false.
IsAnyWindowOpenEnds(t) ==
    /\ ~aborted
    /\ callStack[t] # <<>>
    /\ callStack[t][Len(callStack[t])].op = "isAnyWindowOpen"
    /\ callStack[t][Len(callStack[t])].w = Len(windows)
    /\ Commit([St EXCEPT !.callStack[t] = <<>>])
    /\ lastOp' = Call("isAnyWindowOpen returns", t, Len(windows), FALSE, St)

\* Window::setShouldClose(true) called by thread t on window w, outside any other call.
SetShouldClose(t, w) ==
    /\ ~aborted
    /\ w \in LiveWindows(St)
    /\ callStack[t] = <<>>
    /\ MayLock(St, t, windows[w + 1].sharedMutexID)
    /\ ~shouldClose(St, w)
    /\ Commit(setShouldClose(St, w))
    /\ lastOp' = Call("setShouldClose", t, w, 0, St)

Init ==
    /\ windows = <<>>
    /\ windowsMap = <<>>
    /\ freedWindowIDs = <<>>
    /\ mutexes = <<>>
    /\ freedMutexes = <<>>
    /\ groupObjs = [o \in ObjRefs |-> [null |-> TRUE]]
    /\ windowGroups = <<>>
    /\ freedWindowGroupIDs = <<>>
    /\ windowGroupMap = <<>>
    /\ groups_windows = <<>>
    /\ emptyEvents = FALSE
    /\ aborted = FALSE
    /\ mainPC = "idle"
    /\ waitTimeout = "wait"
    /\ notifies = 0
    /\ eventHandlers = <<>>
    /\ eventHandlerMap = <<>>
    /\ drawables = <<>>
    /\ drawableMap = <<>>
    /\ callStack = [t \in Threads |-> <<>>]
    /\ lastOp = [op |-> "init", a |-> 0, b |-> 0, ret |-> 0, draws |-> [w \in WIDs |-> 0]]

\* Windows created (always successfully) and deleted.
NextWindows ==
    \/ \E share \in WIDs \cup {NoShare} : NewWindow(share, FreshHandle)
    \/ \E id \in WIDs : DeleteWindow(id)

SpecWindows == Init /\ [][NextWindows]_vars

\* Windows created, successfully or not, and deleted.
NextCreation ==
    \/ \E share \in WIDs \cup {NoShare} : NewWindow(share, FreshHandle)
    \/ \E share \in WIDs \cup {NoShare} : NewWindowFails(share)
    \/ \E id \in WIDs : DeleteWindow(id)

SpecCreation == Init /\ [][NextCreation]_vars

\* Groups created and deleted, windows attached and detached.
NextGroups ==
    \/ Len(windows) < MaxGroupWindows /\ NewWindow(NoShare, FreshHandle)
    \/ \E held \in BOOLEAN : NewGroup(held)
    \/ \E id \in GIDs : DeleteWindowGroup(id)
    \/ \E o \in ObjRefs : DropGroupPointer(o)
    \/ \E o \in ObjRefs, w \in WIDs : AttachWindow(o, w)
    \/ \E o \in ObjRefs, w \in WIDs : DetachWindow(o, w)

SpecGroups == Init /\ [][NextGroups]_vars

\* The loop control of one group and its redraw pass. The loop and the pass of a
\* group read and write that group alone, the windows and the update map.
NextLoop ==
    \/ Len(windows) < MaxLoopWindows /\ NewWindow(NoShare, FreshHandle)
    \/ windowGroups = <<>> /\ NewGroup(TRUE)
    \/ \E o \in ObjRefs, w \in WIDs : AttachWindow(o, w)
    \/ \E o \in ObjRefs, poll \in BOOLEAN : SetPoll(o, poll)
    \/ \E o \in ObjRefs : RunLoopConcurrently(o)
    \/ \E o \in ObjRefs : StopAndWait(o)
    \/ \E o \in ObjRefs : Stop(o)
    \/ \E o \in ObjRefs, w \in LiveWindows(St) \cup {WholeGroupWindowIDs, AllWindowIDs} :
           SetWindowToUpdate(o, w)
    \/ \E o \in ObjRefs : Process(o)

SpecLoop == Init /\ [][NextLoop]_vars

\* The program of the example: windows and groups are made and windows attached (to
\* one group at a time) and detached, then mainLoop runs; other threads post requests
\* while it waits for events, and the window system delivers events.
NextMain ==
    \/ mainPC = "idle" /\ Len(windows) < MaxMainWindows /\ NewWindow(NoShare, FreshHandle)
    \/ mainPC = "idle" /\ Len(windowGroups) < MaxMainGroups /\ NewGroup(TRUE)
    \/ \E o \in ObjRefs, w \in WIDs :
           /\ mainPC = "idle"
           /\ getWindowGroup(St, w) = NoWindowGroupID
           /\ AttachWindow(o, w)
    \/ \E o \in ObjRefs, w \in WIDs :
           /\ mainPC = "idle"
           /\ Usable(o)
           /\ w \in groupObjs[o].attachedWindows
           /\ DetachWindow(o, w)
    \/ \E timeout \in {"poll", "wait", "timed"} : mainPC = "idle" /\ SetWaitTimeout(timeout)
    \/ MainLoopStart
    \/ MainLoopResolve
    \/ MainLoopDrained
    \/ \E closing \in SUBSET LiveWindows(St), input \in BOOLEAN :
           MainLoopEvents(closing, input)
    \/ \E g \in (0 .. (MaxMainGroups - 1)) \cup {AnyWindowGroupID},
          w \in (0 .. (MaxMainWindows - 1)) \cup {WholeGroupWindowIDs, AllWindowIDs} :
           mainPC = "events" /\ NotifyFromThread(g, w)

\* mainLoop runs on: the drain goes on while the map is not empty, and the wait
\* returns when an empty event was posted or the timeout is finite.
SpecMain ==
    /\ Init
    /\ [][NextMain]_vars
    /\ WF_vars(MainLoopResolve)
    /\ WF_vars(MainLoopDrained)
    /\ WF_vars(MainLoopEvents({}, FALSE))

\* mainLoop draining requests for groups that may be gone: windows and groups are made,
\* windows attached (to one group at a time) and detached, groups set to poll and
\* deleted, then mainLoop runs with no timeout and other threads post requests while
\* it waits.
NextResolve ==
    \/ mainPC = "idle" /\ Len(windows) < MaxMainWindows /\ NewWindow(NoShare, FreshHandle)
    \/ mainPC = "idle" /\ Len(windowGroups) < MaxMainGroups /\ NewGroup(TRUE)
    \/ \E o \in ObjRefs, w \in WIDs :
           /\ mainPC = "idle"
           /\ getWindowGroup(St, w) = NoWindowGroupID
           /\ AttachWindow(o, w)
    \/ \E o \in ObjRefs, w \in WIDs :
           /\ mainPC = "idle"
           /\ Usable(o)
           /\ w \in groupObjs[o].attachedWindows
           /\ DetachWindow(o, w)
    \/ \E o \in ObjRefs : mainPC = "idle" /\ Usable(o) /\ ~groupObjs[o].doPoll /\ SetPoll(o, TRUE)
    \/ \E id \in 0 .. (MaxMainGroups - 1) :
           mainPC = "idle" /\ getGroup(St, id) # NullRef /\ DeleteWindowGroup(id)
    \/ MainLoopStart
    \/ MainLoopResolve
    \/ MainLoopDrained
    \/ MainLoopEvents({}, FALSE)
    \/ \E g \in (0 .. (MaxMainGroups - 1)) \cup {AnyWindowGroupID},
          w \in (0 .. (MaxMainWindows - 1)) \cup {WholeGroupWindowIDs} :
           mainPC = "events" /\ NotifyFromThread(g, w)

SpecResolve == Init /\ [][NextResolve]_vars

\* The event handlers of one window bound, rebound and unbound.
NextHandlers ==
    \/ \E eh \in EventHandlers, r \in Ranks, eraseSide \in Sides, insertSide \in Sides,
          victim \in 0 .. MaxHandlers :
           BindEventHandler(eh, r, eraseSide, insertSide, victim)
    \/ \E eh \in EventHandlers, eraseSide \in Sides, victim \in 0 .. MaxHandlers :
           UnbindEventHandler(eh, eraseSide, victim)

SpecHandlers == Init /\ [][NextHandlers]_vars

\* The handlers of the window that is given events.
DispatchHandlers == 1 .. MaxDispatchHandlers

\* The events a window is given: for this window or another, of a type each handler
\* has in its mask or not, and which each handler that has it handles or not.
Events ==
    {e \in [windowID : {BoundWindowID, BoundWindowID + 1},
            includes : [DispatchHandlers -> BOOLEAN],
            handles : [DispatchHandlers -> BOOLEAN]] :
        \A h \in DispatchHandlers : e.handles[h] => e.includes[h]}

\* Handlers are bound to a window, each once, and the window is given events.
NextDispatch ==
    \/ \E eh \in DispatchHandlers, r \in Ranks :
           /\ eh \notin DOMAIN eventHandlerMap
           /\ BindEventHandler(eh, r, "back", "back", NoSlot)
    \/ \E e \in Events : HandleEvent(e)

SpecDispatch == Init /\ [][NextDispatch]_vars

\* The drawables of one window bound, rebound and unbound, and the window drawn.
NextDrawables ==
    \/ \E d \in Drawables, r \in Ranks, eraseSide \in Sides, insertSide \in Sides,
          victim \in 0 .. MaxDrawables :
           BindDrawable(d, r, eraseSide, insertSide, victim)
    \/ \E d \in Drawables, eraseSide \in Sides, victim \in 0 .. MaxDrawables :
           UnbindDrawable(d, eraseSide, victim)
    \/ Draw

SpecDrawables == Init /\ [][NextDrawables]_vars

\* Windows are created, sharing a context or not, and threads handle events and
\* draw on them.
NextSlots ==
    \/ \E share \in WIDs \cup {NoShare} :
           Len(windows) < MaxSlotWindows /\ NewWindow(share, FreshHandle)
    \/ \E t \in Threads, w \in WIDs : HandleEventBegins(t, w)
    \/ \E t \in Threads : HandleEventEnds(t)
    \/ \E t \in Threads, w \in WIDs : MakeContextCurrent(t, w)
    \/ \E t \in Threads, w \in WIDs : DrawBegins(t, w)
    \/ \E t \in Threads : DrawEnds(t)
    \/ \E t \in Threads : DoneCurrentContext(t)

SpecSlots == Init /\ [][NextSlots]_vars

\* The same threads, of which any may also close a window and ask whether a window is
\* open, as mainLoop does at the end of each iteration.
NextLocks ==
    \/ NextSlots
    \/ \E t \in Threads, w \in WIDs : SetShouldClose(t, w)
    \/ \E t \in Threads : IsAnyWindowOpenBegins(t)
    \/ \E t \in Threads : IsAnyWindowOpenTests(t)
    \/ \E t \in Threads : IsAnyWindowOpenEnds(t)

SpecLocks == Init /\ [][NextLocks]_vars

\* A program that makes windows and groups, attaches, detaches and deletes groups,
\* runs mainLoop until its windows are closed, and then does it again: the IDs of the
\* windows that the close sweep destroyed are given to the new windows.
NextReuse ==
    \/ /\ mainPC = "idle"
       /\ freedWindowIDs # <<>> \/ Len(windows) < MaxReuseWindows
       /\ NewWindow(NoShare, FreshHandle)
    \/ \E held \in BOOLEAN :
           /\ mainPC = "idle"
           /\ freedWindowGroupIDs # <<>> \/ Len(windowGroups) < MaxReuseGroups
           /\ NewGroup(held)
    \/ \E o \in ObjRefs, w \in WIDs : mainPC = "idle" /\ AttachWindow(o, w)
    \/ \E o \in ObjRefs, w \in WIDs :
           /\ mainPC = "idle"
           /\ Usable(o)
           /\ w \in groupObjs[o].attachedWindows
           /\ DetachWindow(o, w)
    \/ \E id \in 0 .. (MaxReuseGroups - 1) :
           mainPC = "idle" /\ getGroup(St, id) # NullRef /\ DeleteWindowGroup(id)
    \/ MainLoopStart
    \/ MainLoopResolve
    \/ MainLoopDrained
    \/ \E closing \in SUBSET LiveWindows(St) : MainLoopEvents(closing, closing # {})
    \/ \E w \in LiveWindows(St), close \in BOOLEAN : MainLoopInput(w, close)
    \/ MainLoopReturns

SpecReuse == Init /\ [][NextReuse]_vars

\* The group keys and the window IDs posted to the update map.
QueueGroups == (0 .. (MaxQueueGroups - 1)) \cup {AnyWindowGroupID, AllWindowGroupIDs}
QueueWindows == (0 .. (MaxQueueWindows - 1)) \cup {AllWindowIDs}

\* The update map alone: requests posted and popped.
NextQueue ==
    \/ \E g \in QueueGroups, w \in QueueWindows : SetToUpdate(g, w)
    \/ \E g \in QueueGroups, w \in QueueWindows : Notify(g, w)
    \/ PopGroup

SpecQueue == Init /\ [][NextQueue]_vars

\* ------------------------------------------------------------------------
\* The shared-mutex pool (C1, C2)
\* ------------------------------------------------------------------------

\* The live windows whose sharedMutexID is m.
UsersOf(m) == {id \in LiveWindows(St) : windows[id + 1].sharedMutexID = m}

\* C1: after any sequence of window creations (with or without a share window) and
\* destructions, the count of every shared-mutex slot is the number of live windows
\* whose sharedMutexID is that slot, and a slot that is in freedMutexes has no live
\* window pointing at it.
C1_CountIsNumberOfUsers ==
    \A m \in 0 .. (Len(mutexes) - 1) :
        /\ mutexes[m + 1].count = Cardinality(UsersOf(m))
        /\ m \in Range(freedMutexes) => UsersOf(m) = {}

\* C2: a window created sharing A's context gets A's slot; deleting a window whose
\* slot another live window uses leaves the slot's count at 1 or more and the slot
\* out of freedMutexes; a window created without sharing never gets the slot of a
\* live window; a slot whose last user is deleted has count 0 and is in freedMutexes.
C2_SharedSlotOutlivesFirstUser ==
    [][/\ (lastOp'.op = "newWindow" /\ lastOp'.a # NoShare) =>
              windows'[lastOp'.ret + 1].sharedMutexID = windows[lastOp'.a + 1].sharedMutexID
       /\ (lastOp'.op = "newWindow" /\ lastOp'.a = NoShare) =>
              UsersOf(windows'[lastOp'.ret + 1].sharedMutexID) = {}
       /\ (lastOp'.op = "deleteWindow" /\ lastOp'.b) =>
              LET m == windows[lastOp'.a + 1].sharedMutexID IN
              IF UsersOf(m) \ {lastOp'.a} # {}
              THEN mutexes'[m + 1].count >= 1 /\ m \notin Range(freedMutexes')
              ELSE mutexes'[m + 1].count = 0 /\ m \in Range(freedMutexes')
      ]_vars

\* ------------------------------------------------------------------------
\* WindowIDs (C3) and failed creation (C7)
\* ------------------------------------------------------------------------

Min(S) == CHOOSE x \in S : \A y \in S : x <= y

\* C3: no two live windows have the same WindowID (each live window carries the ID
\* it is registered under, and newWindow never returns the ID of a live window), and
\* newWindow returns the smallest freed ID when there is one, otherwise the next
\* integer never handed out, which is the length of Window::windows.
C3_WindowIDsUniqueSmallestFirst ==
    /\ [](\A id \in LiveWindows(St) : windows[id + 1].windowID = id)
    /\ [][lastOp'.op = "newWindow" =>
              /\ lastOp'.ret \notin LiveWindows(St)
              /\ lastOp'.ret \in LiveWindows(St')
              /\ LiveWindows(St') = LiveWindows(St) \cup {lastOp'.ret}
              /\ lastOp'.ret = IF freedWindowIDs # <<>>
                               THEN Min(Range(freedWindowIDs))
                               ELSE Len(windows)
         ]_vars

\* Reached: IDs 0 and 2 were freed while window 1 lives, and newWindow returned 0,
\* leaving 2 in the free list.
C3_Witness ==
    /\ lastOp.op = "newWindow"
    /\ lastOp.ret = 0
    /\ freedWindowIDs = <<2>>
    /\ LiveWindows(St) = {0, 1}

\* C7: a newWindow whose native surface cannot be created retains nothing: the free
\* list of WindowIDs is as before and the next newWindow books the ID the failed call
\* had booked, and the counts of the mutex slots and freedMutexes are as before.
C7_FailedCreationRetainsNothing ==
    [][lastOp'.op = "newWindowFailed" =>
           /\ freedWindowIDs' = freedWindowIDs
           /\ newWindowID(St').id = lastOp'.ret
           /\ mutexes' = mutexes
           /\ freedMutexes' = freedMutexes
      ]_vars

\* ------------------------------------------------------------------------
\* The groups: IDs (C4) and membership (C5, C6)
\* ------------------------------------------------------------------------

\* The groups that are alive: created, and neither deleted nor destructed.
LiveGroups == {o \in ObjRefs : Usable(o)}

\* C4: no two live groups have the same WindowGroupID, and every live group is the
\* group registered under its ID (also the first of two groups created one after the
\* other once a group was deleted).
C4_GroupIDsUnique ==
    /\ \A o1, o2 \in LiveGroups :
           o1 # o2 => groupObjs[o1].groupID # groupObjs[o2].groupID
    /\ \A o \in LiveGroups : getGroup(St, groupObjs[o].groupID) = o

\* C5: after attachWindow(W) on a group, also when W was attached to another group
\* before, W is a member of exactly that group: getWindowGroup(W) is its ID, W is in
\* its attached set and in the attached set of no other group.
C5_AttachMovesWindow ==
    [][lastOp'.op = "attachWindow" =>
           LET o == lastOp'.a
               w == lastOp'.b
           IN  /\ getWindowGroup(St', w) = groupObjs'[o].groupID
               /\ w \in groupObjs'[o].attachedWindows
               /\ \A o2 \in GroupObjects(St') \ {o} :
                      w \notin groupObjs'[o2].attachedWindows
      ]_vars

\* C6: the window-to-group mapping and the attached sets of the live groups agree in
\* both directions, and every window is in at most one attached set.
C6_MappingAgreesWithAttachedSets ==
    /\ \A w \in WIDs : \A o \in LiveGroups :
           (getWindowGroup(St, w) = groupObjs[o].groupID)
               <=> (w \in groupObjs[o].attachedWindows)
    /\ \A w \in WIDs : \A o1, o2 \in LiveGroups :
           (w \in groupObjs[o1].attachedWindows /\ w \in groupObjs[o2].attachedWindows)
               => o1 = o2

\* ------------------------------------------------------------------------
\* The loop of a group (C8, C10)
\* ------------------------------------------------------------------------

\* C8: runLoopConcurrently on a group whose loop is not running starts the worker of
\* the group: afterwards isRunningConcurrently() is true and doLoop is set, so that
\* the worker runs its loop.
C8_RunLoopStartsWorker ==
    [][(lastOp'.op = "runLoopConcurrently" /\ ~isRunningConcurrently(St, lastOp'.a)) =>
           /\ isRunningConcurrently(St', lastOp'.a)
           /\ groupObjs'[lastOp'.a].doLoop
      ]_vars

\* The windows the redraw pass of group o draws in state s.
PassDraws(s, o) ==
    LET g == s.groupObjs[o] IN
    {w \in g.attachedWindows :
        \/ g.doPoll
        \/ WholeGroupWindowIDs \in g.windowsToUpdate
        \/ AllWindowIDs \in g.windowsToUpdate
        \/ w \in g.windowsToUpdate}

\* C10: process() on a group with a running worker draws nothing on the calling
\* thread and leaves the pending set to the worker; process() on a group with no
\* worker performs the redraw pass on the calling thread before it returns: the
\* windows of the pass are drawn once each, no other window is drawn, and the
\* pending set is empty.
C10_ProcessSignalsOrDraws ==
    [][(lastOp'.op = "process" /\ ~aborted') =>
           LET o == lastOp'.a IN
           IF isRunningConcurrently(St, o)
           THEN /\ \A w \in WIDs : lastOp'.draws[w] = 0
                /\ groupObjs'[o] = groupObjs[o]
           ELSE /\ \A w \in WIDs :
                       lastOp'.draws[w] = IF w \in PassDraws(St, o) THEN 1 ELSE 0
                /\ groupObjs'[o].windowsToUpdate = {}
      ]_vars

\* Reached: process() on a group with no worker has just drawn a pending attached
\* window on the calling thread.
C10_Witness ==
    /\ lastOp.op = "process"
    /\ ~isRunningConcurrently(St, lastOp.a)
    /\ \E w \in WIDs : lastOp.draws[w] = 1
    /\ groupObjs[lastOp.a].windowsToUpdate = {}

\* No group ever has a worker: threadOfLoop is never joinable and doLoop never set.
NoWorkerRuns ==
    \A o \in GroupObjects(St) : ~groupObjs[o].joinable /\ ~groupObjs[o].doLoop

\* C11: stopAndWait on a group with a running worker returns with the worker joined
\* (the thread is no longer joinable and doLoop is false, so that no pass of the
\* worker follows); on a group with no worker it returns at once and changes nothing.
C11_StopAndWaitJoinsOrDoesNothing ==
    [][lastOp'.op = "stopAndWait" =>
           IF isRunningConcurrently(St, lastOp'.a)
           THEN /\ ~isRunningConcurrently(St', lastOp'.a)
                /\ ~groupObjs'[lastOp'.a].doLoop
           ELSE St' = St
      ]_vars

\* Reached: stopAndWait has returned on a group with no worker and with a window
\* pending, which is still pending.
C11_Witness ==
    /\ lastOp.op = "stopAndWait"
    /\ ~isRunningConcurrently(St, lastOp.a)
    /\ groupObjs[lastOp.a].windowsToUpdate # {}

\* ------------------------------------------------------------------------
\* The redraw pass (C13, C14)
\* ------------------------------------------------------------------------

\* C13 as stated: a pass in poll mode or with WholeGroupWindowIDs pending draws every
\* attached window once; any other pass draws the pending attached windows once each
\* and nothing else; windowsToUpdate is empty afterwards.
C13_PassDrawsByWholeGroupMarker ==
    [][(lastOp'.op = "process" /\ ~isRunningConcurrently(St, lastOp'.a) /\ ~aborted') =>
           LET g == groupObjs[lastOp'.a]
               whole == g.doPoll \/ WholeGroupWindowIDs \in g.windowsToUpdate
               drawn == IF whole THEN g.attachedWindows
                        ELSE g.windowsToUpdate \cap g.attachedWindows
           IN  /\ \A w \in drawn : lastOp'.draws[w] = 1
               /\ \A w \in WIDs \ drawn : lastOp'.draws[w] = 0
               /\ groupObjs'[lastOp'.a].windowsToUpdate = {}
      ]_vars

\* C13, amended: AllWindowIDs pending stands for the whole group as
\* WholeGroupWindowIDs does. A pass in poll mode or with either of them pending draws
\* every attached window once; any other pass draws the pending attached windows once
\* each and nothing else; windowsToUpdate is empty afterwards.
C13_PassDrawsByEitherMarker ==
    [][(lastOp'.op = "process" /\ ~isRunningConcurrently(St, lastOp'.a) /\ ~aborted') =>
           LET g == groupObjs[lastOp'.a]
               whole == \/ g.doPoll
                        \/ {WholeGroupWindowIDs, AllWindowIDs} \cap g.windowsToUpdate # {}
               drawn == IF whole THEN g.attachedWindows
                        ELSE g.windowsToUpdate \cap g.attachedWindows
           IN  /\ \A w \in drawn : lastOp'.draws[w] = 1
               /\ \A w \in WIDs \ drawn : lastOp'.draws[w] = 0
               /\ groupObjs'[lastOp'.a].windowsToUpdate = {}
      ]_vars

\* Reached: a pass in poll mode with nothing pending has drawn an attached window.
C13_Witness ==
    /\ lastOp.op = "process"
    /\ groupObjs[lastOp.a].doPoll
    /\ \E w \in groupObjs[lastOp.a].attachedWindows : lastOp.draws[w] = 1
    /\ groupObjs[lastOp.a].windowsToUpdate = {}

PostedAnyAllAnd(G, w1) ==
    LET e == [St EXCEPT !.groups_windows = <<>>] IN
    {setToUpdate(setToUpdate(e, AnyWindowGroupID, AllWindowIDs), G, w1).groups_windows,
     setToUpdate(setToUpdate(e, G, w1), AnyWindowGroupID, AllWindowIDs).groups_windows}

\* C16: when (AnyWindowGroupID, AllWindowIDs) and (G, w1), G a real group and w1 a real
\* window, were posted to an empty map in either order, the first popGroup returns
\* (AllWindowGroupIDs, {AllWindowIDs}) and leaves the map empty, so that the drain
\* pops one entry.
C16_AllSentinelSubsumes ==
    [][lastOp'.op = "popGroup" =>
           \A G \in 0 .. (MaxQueueGroups - 1), w1 \in 0 .. (MaxQueueWindows - 1) :
               groups_windows \in PostedAnyAllAnd(G, w1) =>
                   /\ lastOp'.a = AllWindowGroupIDs
                   /\ lastOp'.b = {AllWindowIDs}
                   /\ empty(St')
      ]_vars

\* Reached: popGroup on the map holding (AnyWindowGroupID, {AllWindowIDs}) and (0, {0})
\* has returned redraw-everything and the map is empty.
C16_Witness ==
    /\ lastOp.op = "popGroup"
    /\ lastOp.ret \in PostedAnyAllAnd(0, 0)
    /\ lastOp.a = AllWindowGroupIDs
    /\ lastOp.b = {AllWindowIDs}
    /\ empty(St)

\* C17: popGroup on a map with an entry of key AllWindowGroupIDs or AnyWindowGroupID
\* whose set holds AllWindowIDs returns (AllWindowGroupIDs, {AllWindowIDs}) and
\* empties the map; on any other non-empty map it removes one entry and returns its
\* key and its window set.
C17_PopPrefersAllSentinel ==
    [][lastOp'.op = "popGroup" =>
           IF \E k \in {AllWindowGroupIDs, AnyWindowGroupID} \cap DOMAIN groups_windows :
                  AllWindowIDs \in groups_windows[k]
           THEN /\ lastOp'.a = AllWindowGroupIDs
                /\ lastOp'.b = {AllWindowIDs}
                /\ groups_windows' = <<>>
           ELSE groups_windows # <<>> =>
                    \E k \in DOMAIN groups_windows :
                        /\ lastOp'.a = k
                        /\ lastOp'.b = groups_windows[k]
                        /\ groups_windows' = MapRemove(groups_windows, k)
      ]_vars

\* C18: a post of (g, w) leaves one entry of key g whose set is the set it had, if
\* any, with w added, and leaves the other entries as they were, so that posts with
\* no pop in between add up per key; popGroup on an empty map returns
\* (NoWindowGroupID, {}); empty() is true exactly when no window is pending under
\* any key.
C18_PostsCoalescePerGroup ==
    /\ [](empty(St) <=> ~\E g \in DOMAIN groups_windows : groups_windows[g] # {})
    /\ [][(lastOp'.op \in {"setToUpdate", "notify"}) =>
              (LET g == lastOp'.a
                   w == lastOp'.b
               IN  /\ DOMAIN groups_windows' = (DOMAIN groups_windows) \cup {g}
                   /\ groups_windows'[g] =
                          (IF g \in DOMAIN groups_windows THEN groups_windows[g] ELSE {})
                              \cup {w}
                   /\ \A k \in (DOMAIN groups_windows) \ {g} :
                          groups_windows'[k] = groups_windows[k])
         ]_vars
    /\ [][(lastOp'.op = "popGroup" /\ empty(St)) =>
              (/\ lastOp'.a = NoWindowGroupID
               /\ lastOp'.b = {}
               /\ empty(St'))
         ]_vars

\* Reached: group 0 was posted twice with no pop in between and its entry holds
\* both windows.
C18_Witness ==
    /\ lastOp.op \in {"setToUpdate", "notify"}
    /\ 0 \in DOMAIN groups_windows
    /\ groups_windows[0] = {0, AllWindowIDs}

\* ------------------------------------------------------------------------
\* mainLoop (C19, C20)
\* ------------------------------------------------------------------------

\* Window wID is pending in the update map under the key gID.
Pending(gID, wID) == gID \in DOMAIN groups_windows /\ wID \in groups_windows[gID]

\* C19 as stated: when another thread has called UpdateMap::notify while the owning
\* thread is in, or about to enter, the wait for events, mainLoop eventually drains
\* the update map, so that the request is popped and resolved.
C19_NotifiedRequestIsDrained ==
    (mainPC = "events" /\ lastOp.op = "notify" /\ Pending(lastOp.a, lastOp.b))
        ~> empty(St)

\* C19, amended: mainLoop eventually drains the update map, so that the request is
\* popped and resolved, unless mainLoop returns first because no window is open any
\* more.
C19_NotifiedRequestIsDrainedWhileLooping ==
    (mainPC = "events" /\ lastOp.op = "notify" /\ Pending(lastOp.a, lastOp.b))
        ~> (empty(St) \/ mainPC = "done")

\* Reached: mainLoop was waiting for events with no timeout when another thread
\* notified a request, which is pending with an empty event posted.
C19_Witness ==
    /\ mainPC = "events"
    /\ waitTimeout = "wait"
    /\ lastOp.op = "notify"
    /\ Pending(lastOp.a, lastOp.b)
    /\ emptyEvents
    /\ isAnyWindowOpen(St)

\* C20: entering mainLoop puts (AllWindowGroupIDs, AllWindowIDs) in the update map, and
\* the turn of the drain that pops (AllWindowGroupIDs, {AllWindowIDs}) draws every
\* window that exists once and leaves no group with anything pending.
C20_RedrawEverythingDrawsEveryWindow ==
    [][/\ (lastOp'.op = "mainLoopStart") =>
              Pending(AllWindowGroupIDs, AllWindowIDs)'
       /\ (lastOp'.op = "resolve" /\ lastOp'.a = AllWindowGroupIDs
              /\ lastOp'.b = {AllWindowIDs} /\ ~aborted') =>
              (/\ \A w \in getAllWindowIDs(St) : lastOp'.draws[w] = 1
               /\ \A w \in WIDs \ getAllWindowIDs(St) : lastOp'.draws[w] = 0
               /\ \A o \in GroupObjects(St') : groupObjs'[o].windowsToUpdate = {})
      ]_vars

\* ------------------------------------------------------------------------
\* The ungrouped windows (C21)
\* ------------------------------------------------------------------------

\* C21: getAllUngroupedWindowIDs returns exactly the windows that exist and are in
\* the attached set of no group, after any sequence of window creation, attachWindow,
\* detachWindow and deleteWindowGroup; a window that was attached and then detached,
\* or whose group was deleted, is in the result.
C21_UngroupedAreTheUnattached ==
    getAllUngroupedWindowIDs(St) =
        {w \in getAllWindowIDs(St) :
            \A o \in LiveGroups : w \notin groupObjs[o].attachedWindows}

\* ------------------------------------------------------------------------
\* Entries of groups that do not exist (C22)
\* ------------------------------------------------------------------------

Occurrences(seq, x) == Cardinality({i \in 1 .. Len(seq) : seq[i] = x})

\* C24: deleteWindow(id) on a window that exists unmaps its native handle, leaves no
\* window at id, puts id into the free list exactly once and decrements the count of
\* the window's mutex slot exactly once, the destructor that runs afterwards included;
\* deleteWindow(id) when no window is at id changes no state.
C24_DeleteWindowIsIdempotent ==
    [][lastOp'.op = "deleteWindow" =>
           IF getWindow(St, lastOp'.a) # NullWindow
           THEN LET id == lastOp'.a
                    w == windows[id + 1]
                IN  /\ w.glfwWindow \notin DOMAIN windowsMap'
                    /\ getWindow(St', id) = NullWindow
                    /\ Occurrences(freedWindowIDs', id) = 1
                    /\ Len(freedWindowIDs') = Len(freedWindowIDs) + 1
                    /\ mutexes'[w.sharedMutexID + 1].count =
                           mutexes[w.sharedMutexID + 1].count - 1
           ELSE St' = St
      ]_vars

\* ------------------------------------------------------------------------
\* Deleting a group (C23)
\* ------------------------------------------------------------------------

\* C23: deleteWindowGroup(G) on a registered group leaves getGroup(G) null and every
\* window that was attached to G mapped to NoWindowGroupID; a worker that was running
\* is joined, so that the group object, if a pointer still keeps it, has no joinable
\* thread, no loop to run and an empty attached set.
C23_DeleteGroupJoinsThenClears ==
    [][(lastOp'.op = "deleteWindowGroup" /\ lastOp'.b # NullRef) =>
           (/\ getGroup(St', lastOp'.a) = NullRef
            /\ \A w \in groupObjs[lastOp'.b].attachedWindows :
                   getWindowGroup(St', w) = NoWindowGroupID
            /\ groupObjs'[lastOp'.b] # NullGroupObj =>
                   /\ ~isRunningConcurrently(St', lastOp'.b)
                   /\ isRunningConcurrently(St, lastOp'.b) => ~groupObjs'[lastOp'.b].doLoop
                   /\ groupObjs'[lastOp'.b].attachedWindows = {})
      ]_vars

\* Reached: a group with a window attached was deleted; no group is registered at its
\* ID and the window maps to NoWindowGroupID.
C23_Witness ==
    /\ lastOp.op = "deleteWindowGroup"
    /\ lastOp.b # NullRef
    /\ lastOp.ret # {}
    /\ getGroup(St, lastOp.a) = NullRef
    /\ \A w \in lastOp.ret : w \in DOMAIN windowGroupMap /\ windowGroupMap[w] = NoWindowGroupID

\* ------------------------------------------------------------------------
\* Event dispatch (C25)
\* ------------------------------------------------------------------------

\* C25: handleEvent of an event for another window calls no handler. Otherwise it
\* calls handlers in the order of the list, which is the order of their ranks, and
\* the handler in slot i is called exactly when its mask has the type of the event
\* and no handler before it in the list has the type in its mask and returned true:
\* handlers without the type are skipped, a handler that returns false does not stop
\* the chain, and no handler after the first one that returns true is called.
C25_DispatchStopsAtFirstConsumer ==
    [][lastOp'.op = "handleEvent" =>
           LET e == lastOp'.a
               calls == lastOp'.ret
               Object(i) == eventHandlers[i].object
               Consumes(i) == e.includes[Object(i)] /\ e.handles[Object(i)]
           IN  IF e.windowID # BoundWindowID
               THEN calls = <<>>
               ELSE /\ \A k \in 1 .. (Len(calls) - 1) :
                           /\ calls[k] < calls[k + 1]
                           /\ eventHandlers[calls[k]].rank <= eventHandlers[calls[k + 1]].rank
                    /\ \A i \in 1 .. Len(eventHandlers) :
                           (\E k \in 1 .. Len(calls) : calls[k] = i)
                               <=> (e.includes[Object(i)] /\ \A j \in 1 .. (i - 1) : ~Consumes(j))
      ]_vars

\* Reached: of two bound handlers that both have the type of the event, the first has
\* returned true and the second was not called.
C25_Witness ==
    /\ lastOp.op = "handleEvent"
    /\ lastOp.a.windowID = BoundWindowID
    /\ Len(eventHandlers) = 2
    /\ \A i \in 1 .. 2 : lastOp.a.includes[eventHandlers[i].object]
    /\ lastOp.ret = <<1>>

\* ------------------------------------------------------------------------
\* The ranked lists (C26, C27, C28)
\* ------------------------------------------------------------------------

\* The slots of list that hold obj.
SlotsOf(list, obj) == {i \in 1 .. Len(list) : list[i].object = obj}

\* list is sorted by ascending rank.
SortedByRank(list) == \A i \in 1 .. (Len(list) - 1) : list[i].rank <= list[i + 1].rank

\* C26: after any sequence of bindEventHandler and unbindEventHandler on a window the
\* handler list is sorted by ascending rank and holds each bound handler exactly
\* once, and after bindEventHandler(eh, r) the one entry of eh has rank r, also when
\* eh was bound before.
C26_ListSortedEachBoundOnce ==
    /\ [](/\ SortedByRank(eventHandlers)
          /\ \A eh \in DOMAIN eventHandlerMap :
                 Cardinality(SlotsOf(eventHandlers, eh)) = 1)
    /\ [][lastOp'.op = "bindEventHandler" =>
              \A i \in SlotsOf(eventHandlers', lastOp'.a) :
                  eventHandlers'[i].rank = lastOp'.b
         ]_vars

\* C27: bindEventHandler(eh, r) puts eh after every handler that is in the list with
\* the same rank r, so that handlers of equal rank are in the list, and are called,
\* in the order in which they were bound.
C27_EqualRankInBindingOrder ==
    [][(lastOp'.op = "bindEventHandler" /\ ~aborted') =>
           \A i \in SlotsOf(eventHandlers', lastOp'.a) :
               \A j \in 1 .. Len(eventHandlers') :
                   (eventHandlers'[j].rank = lastOp'.b
                        /\ eventHandlers'[j].object # lastOp'.a) => j < i
      ]_vars

\* C28: the iterator the lookup map has for each bound handler designates that
\* handler's own entry of the list, after any sequence of bind, rebind and unbind; and
\* unbindEventHandler(eh) removes exactly the entry of eh: afterwards eh is not in the
\* list and every other handler that was in it is still there with its rank.
C28_UnbindRemovesOwnEntry ==
    /\ [](\A eh \in DOMAIN eventHandlerMap :
              /\ eventHandlerMap[eh] \in 1 .. Len(eventHandlers)
              /\ eventHandlers[eventHandlerMap[eh]].object = eh)
    /\ [][(lastOp'.op = "unbindEventHandler" /\ ~aborted') =>
              (/\ SlotsOf(eventHandlers', lastOp'.a) = {}
               /\ \A i \in 1 .. Len(eventHandlers) :
                      eventHandlers[i].object # lastOp'.a =>
                          \E j \in 1 .. Len(eventHandlers') :
                              eventHandlers'[j] = eventHandlers[i])
         ]_vars

\* ------------------------------------------------------------------------
\* The lock of a slot (C29)
\* ------------------------------------------------------------------------

\* Thread t is inside op on a window whose slot is m.
Inside(t, op, m) ==
    \E i \in 1 .. Len(callStack[t]) :
        callStack[t][i].op = op /\ windows[callStack[t][i].w + 1].sharedMutexID = m

\* C29: no two different threads are at the same time one inside handleEvent and the
\* other inside draw of windows that have the same shared-mutex slot, the same window
\* included.
C29_DispatchAndDrawExcludeEachOther ==
    \A t1, t2 \in Threads : \A m \in 0 .. (Len(mutexes) - 1) :
        (t1 # t2) => ~(Inside(t1, "handleEvent", m) /\ Inside(t2, "draw", m))

\* Reached: a thread is inside handleEvent of a window while another window has the
\* same slot, and a thread that would draw that other window has to wait.
C29_Witness ==
    \E t1, t2 \in Threads : \E w1, w2 \in LiveWindows(St) :
        /\ t1 # t2
        /\ w1 # w2
        /\ windows[w1 + 1].sharedMutexID = windows[w2 + 1].sharedMutexID
        /\ Inside(t1, "handleEvent", windows[w1 + 1].sharedMutexID)
        /\ callStack[t1][1].w = w1
        /\ callStack[t2] = <<>>
        /\ ~MayLock(St, t2, windows[w2 + 1].sharedMutexID)

\* ------------------------------------------------------------------------
\* The close sweep and the loop condition of mainLoop (C30)
\* ------------------------------------------------------------------------

\* C30: when an iteration of mainLoop has delivered its events, every window whose
\* close flag is set, by these events or from before, is destroyed, is no longer in
\* the attached set of the group it was mapped to, and is mapped to no group; mainLoop
\* then returns if and only if no window that exists has its close flag clear.
C30_SweepClosesAndLoopEndsWhenNoneOpen ==
    [][(mainPC = "events" /\ mainPC' # "events") =>
           (/\ \A w \in windowsToClose(St) \cup lastOp'.a :
                   /\ windows'[w + 1] = NullWindow
                   /\ getWindowGroup(St', w) = NoWindowGroupID
                   /\ LET o == getGroup(St, getWindowGroup(St, w)) IN
                          (o # NullRef /\ groupObjs'[o] # NullGroupObj) =>
                              w \notin groupObjs'[o].attachedWindows
            /\ windowsToClose(St') = {}
            /\ (mainPC' = "done") = ~isAnyWindowOpen(St')
            /\ mainPC' \in {"drain", "done"})
      ]_vars

\* Reached: the events of an iteration asked to close a window that a group had
\* attached; the window is gone, the group no longer has it and, no window being
\* open, mainLoop has returned.
C30_Witness ==
    /\ lastOp.op = "events"
    /\ mainPC = "done"
    /\ \E w \in lastOp.a :
           /\ w \in lastOp.ret
           /\ windows[w + 1] = NullWindow
           /\ \E o \in ObjRefs : groupObjs[o] # NullGroupObj
           /\ \A o \in ObjRefs :
                  groupObjs[o] # NullGroupObj => w \notin groupObjs[o].attachedWindows

\* ------------------------------------------------------------------------
\* Requests for windows a group does not have (C31)
\* ------------------------------------------------------------------------

\* C31: a redraw pass, whichever branch it takes, leaves each pending ID of a live
\* window that is not attached to the group in the update map under AnyWindowGroupID,
\* with an empty event posted, before the pending set is cleared.
C31_EveryPassForwardsUnattached ==
    [][(lastOp'.op = "process" /\ ~isRunningConcurrently(St, lastOp'.a) /\ ~aborted') =>
           LET g == groupObjs[lastOp'.a] IN
           \A w \in (g.windowsToUpdate \cap LiveWindows(St)) \ g.attachedWindows :
               /\ AnyWindowGroupID \in DOMAIN groups_windows'
               /\ w \in groups_windows'[AnyWindowGroupID]
               /\ emptyEvents'
      ]_vars

\* ------------------------------------------------------------------------
\* Window IDs given again (C32)
\* ------------------------------------------------------------------------

\* C32: the window that newWindow returns has its ID in the attached set of no group,
\* getWindowGroup of it is NoWindowGroupID, and it is one of the windows that
\* getAllUngroupedWindowIDs gives mainLoop to draw as ungrouped.
C32_NewWindowIsInNoGroup ==
    [][lastOp'.op = "newWindow" =>
           (/\ \A o \in ObjRefs :
                   groupObjs'[o] # NullGroupObj =>
                       lastOp'.ret \notin groupObjs'[o].attachedWindows
            /\ getWindowGroup(St', lastOp'.ret) = NoWindowGroupID
            /\ lastOp'.ret \in getAllUngroupedWindowIDs(St'))
      ]_vars

\* ------------------------------------------------------------------------
\* The windows a redraw pass looks up (C33)
\* ------------------------------------------------------------------------

\* C33: when mainLoop resolves a popped entry, no redraw pass it runs meets an ID
\* that Window::getWindow has no window for; when the entry asks to redraw
\* everything, so that every registered group runs a pass, every ID in the attached
\* set of every registered group is the ID of a window that exists.
C33_PassMeetsOnlyLiveWindows ==
    [][(lastOp'.op = "resolve" /\ ~aborted) =>
           (/\ ~aborted'
            /\ (lastOp'.a = AllWindowGroupIDs) =>
                   \A id \in getAllWindowGroupIDs(St) :
                       groupObjs[getGroup(St, id)].attachedWindows \subseteq LiveWindows(St))
      ]_vars

\* ------------------------------------------------------------------------
\* A window closed by a handler (C34)
\* ------------------------------------------------------------------------

\* C34: a window whose close flag a handler sets while mainLoop manages the events is
\* not destroyed before the drain that follows: when the iteration ends the window is
\* still there, with the request its callback posted, to be drawn once more.
C34_ClosedByHandlerIsStillDrawn ==
    [][(lastOp'.op = "input" /\ lastOp'.b /\ ~lastOp'.ret) =>
           (/\ getWindow(St', lastOp'.a) # NullWindow
            /\ \E g \in DOMAIN groups_windows' : lastOp'.a \in groups_windows'[g])
      ]_vars

\* ------------------------------------------------------------------------
\* Registry locks and slot locks (C35)
\* ------------------------------------------------------------------------

\* C35: no thread that holds Window::globalMutex is waiting for the mutex of a
\* window's slot that another thread owns.
C35_NoSlotWaitUnderRegistryLock ==
    \A t \in Threads :
        (HoldsGlobalMutex(t) /\ AtShouldClose(t)) =>
            MayLock(St, t, windows[callStack[t][Len(callStack[t])].w + 1].sharedMutexID)

\* ------------------------------------------------------------------------
\* process() on a group with no active worker (C38)
\* ------------------------------------------------------------------------

C39_MappedGroupHasTheWindow ==
    \A w \in DOMAIN windowGroupMap :
        windowGroupMap[w] # NoWindowGroupID =>
            /\ getGroup(St, windowGroupMap[w]) # NullRef
            /\ w \in groupObjs[getGroup(St, windowGroupMap[w])].attachedWindows

\* ------------------------------------------------------------------------
\* The end of the drain (C40)
\* ------------------------------------------------------------------------

\* C40: when the drain pops the entry of AnyWindowGroupID, where the passes put the
\* windows they forward, each window of the entry is resolved in that turn and is not
\* forwarded again: no entry of AnyWindowGroupID holds it afterwards.
C40_ForwardedIsNotForwardedAgain ==
    [][(lastOp'.op = "resolve" /\ lastOp'.a = AnyWindowGroupID /\ ~aborted') =>
           \A w \in lastOp'.b \cap WIDs :
               ~(/\ AnyWindowGroupID \in DOMAIN groups_windows'
                 /\ w \in groups_windows'[AnyWindowGroupID])
      ]_vars

====
